---- MODULE Spec2Model ----
(***************************************************************************)
(* Green-Boy (src/green-boy.py): the job monitoring registry with its      *)
(* monitor loop, and the single-instance guard of the process.             *)
(*                                                                         *)
(* Spec       the registry, the /monitor and /unmonitor handlers, the      *)
(*            monitor tick and the scheduler they query (one bot process)  *)
(* FairSpec   Spec with the fairness the job queue gives the tick          *)
(* GuardSpec  the start-up of several processes of one operator:           *)
(*            kill_running_bot_processes, check_running_instance, run,     *)
(*            release                                                      *)
(***************************************************************************)
EXTENDS Integers, Sequences, FiniteSets, TLC

VARIABLES
    \* ---- the scheduler and the push channel (environment) ----
    sched,            \* job id -> what `scontrol show job` reports as JobState
    stable,           \* TRUE once the transient failures are over
    \* ---- the bot process ----
    AUTHORIZED_USERS, \* src/green-boy.py:29, fixed by the environment at start
    MONITORED_JOBS,   \* src/green-boy.py:387, the dict in insertion order
    jobs_file,        \* the content of MONITORED_JOBS_FILE
    tick_pc,          \* where check_monitored_jobs stands
    jobs_to_check,    \* what is left of the tick's snapshot (head = current)
    notification,     \* the notification being awaited in send_message
    observed,         \* the running tick's last state query: what it gave,
                      \* and whether that differed from the entry's last_state
    delivered,        \* job id -> notifications send_message delivered (saturating)
    failed_sends,     \* send_message calls of ticks that raised (saturating)
    \* ---- the processes of one operator and the lock artefacts ----
    pc,               \* process -> its position in main()
    found,            \* process -> the pids kill_running_bot_processes collected
    user_port,        \* process -> USER_PORT as that process computed it
    lock_file,        \* process -> the inode its global lock_file is open on
    lock_socket,      \* process -> its lock_socket: none, unbound, bound, closed
    lock_path,        \* the inode linked at LOCK_FILE_PATH (0: no file)
    inode_pid,        \* inode -> the pid written in it (0: empty file)
    inode_lock,       \* inode -> the process holding the lockf lock (0: none)
    history           \* process -> what its main() has done so far, in order

monVars   == <<sched, stable, AUTHORIZED_USERS, MONITORED_JOBS, jobs_file,
               tick_pc, jobs_to_check, notification, observed, delivered,
               failed_sends>>
guardVars == <<pc, found, user_port, lock_file, lock_socket, lock_path,
               inode_pid, inode_lock, history>>
vars      == <<monVars, guardVars>>

-----------------------------------------------------------------------------
(* Bounds of the model                                                     *)

\* failed_sends saturates here
MaxFailedSends == 1
\* delivered[j] saturates here
MaxDelivered == 2

\* The jobs the scheduler knows, as the digit strings scontrol prints.
JobIds == {<<"1">>, <<"2">>}
\* What a user may type or a button may carry as a job id.
RawIds == {<<"1">>, <<"2", "_", "0">>, <<"x">>}
\* (user_id, chat_id) of the updates that reach the bot.
Senders == {[user_id |-> 1, chat_id |-> 10], [user_id |-> 2, chat_id |-> 20]}
\* datetime.now() at the subscriptions, as far as the model tells times apart.
Times == {1}

Digits == {"0", "1", "2", "3", "4", "5", "6", "7", "8", "9"}

TERMINAL_STATES == {"COMPLETED", "CANCELLED", "FAILED", "TIMEOUT"}
\* "absent": the record scontrol prints carries no JobState= token.
SchedStates == {"absent", "PENDING", "RUNNING"} \cup TERMINAL_STATES

NoNote == [job_id |-> <<>>]
NoObs == [state |-> "none", changed |-> FALSE]
Obs(state, changed) == [state |-> state, changed |-> changed]

-----------------------------------------------------------------------------
(* Helpers: Python dict operations on the insertion-ordered registry       *)

RECURSIVE LeadingDigits(_)
LeadingDigits(s) ==
    IF s = <<>> \/ Head(s) \notin Digits THEN <<>>
    ELSE <<Head(s)>> \o LeadingDigits(Tail(s))

\* A normalization that keeps only the first digit of the run.
CleanJobId_FirstDigit(raw) ==
    IF raw # <<>> /\ Head(raw) \in Digits THEN <<Head(raw)>> ELSE raw

\* re.match(r'(\d+)', job_id): the leading digit run, or the id as given
CleanJobId(raw) ==
    LET m == LeadingDigits(raw) IN IF m # <<>> THEN m ELSE raw

Keys(reg) == {reg[i].job_id : i \in DOMAIN reg}
HasKey(reg, k) == k \in Keys(reg)
Get(reg, k) == reg[CHOOSE i \in DOMAIN reg : reg[i].job_id = k]

\* An assignment that adds an item even when the key is there.
DictSet_Appends(reg, k, v) == Append(reg, v)

\* d[k] = v: replaces in place, or appends a new key
DictSet(reg, k, v) ==
    IF HasKey(reg, k)
    THEN [i \in DOMAIN reg |-> IF reg[i].job_id = k THEN v ELSE reg[i]]
    ELSE Append(reg, v)

\* del d[k]
DictDel(reg, k) == SelectSeq(reg, LAMBDA e : e.job_id # k)

\* dict.get(key, default) on a function with string keys
DictGet(d, key, default) == IF key \in DOMAIN d THEN d[key] ELSE default

Min(a, b) == IF a < b THEN a ELSE b

-----------------------------------------------------------------------------
(* Persistence: json.dump / json.load of the registry                      *)

\* A json.dump that writes the user id in the place of the chat id.
JsonDump_LosesChatId(reg) ==
    [i \in DOMAIN reg |->
        <<reg[i].job_id,
          [user_id |-> reg[i].user_id, chat_id |-> reg[i].user_id,
           last_state |-> reg[i].last_state, added_time |-> reg[i].added_time]>>]

\* json.dump(MONITORED_JOBS, f): a JSON object, one member per key, in order
JsonDump(reg) ==
    [i \in DOMAIN reg |->
        <<reg[i].job_id,
          [user_id |-> reg[i].user_id, chat_id |-> reg[i].chat_id,
           last_state |-> reg[i].last_state, added_time |-> reg[i].added_time]>>]

\* json.load(f): the dict of the members, in order
JsonLoad(text) ==
    [i \in DOMAIN text |->
        [job_id |-> text[i][1],
         user_id |-> text[i][2].user_id, chat_id |-> text[i][2].chat_id,
         last_state |-> text[i][2].last_state,
         added_time |-> text[i][2].added_time]]

\* What a write to MONITORED_JOBS_FILE meets: it works ("ok"), open(..., 'w')
\* raises ("denied": the directory or the file is not writable), or open
\* truncates the file and the JSON text cannot be written out ("full").
DiskModes == {"ok", "denied", "full"}

\* MONITORED_JOBS_FILE before it was ever written
NoFile == [exists |-> FALSE, intact |-> TRUE, text |-> <<>>, disk |-> "ok"]

\* save_monitored_jobs(): the file after open(..., 'w') and json.dump; any
\* exception of the two is logged and swallowed, and leaves the file as the
\* failed call left it
save_monitored_jobs(reg) ==
    CASE jobs_file.disk = "ok" ->
            [jobs_file EXCEPT !.exists = TRUE, !.intact = TRUE,
                              !.text = JsonDump(reg)]
      [] jobs_file.disk = "full" ->
            [jobs_file EXCEPT !.exists = TRUE, !.intact = FALSE, !.text = <<>>]
      [] OTHER -> jobs_file

\* load_monitored_jobs(): a missing file (FileNotFoundError) is the empty
\* registry, and so is a file json.load cannot parse (except Exception)
load_monitored_jobs(file) ==
    IF ~file.exists \/ ~file.intact THEN <<>> ELSE JsonLoad(file.text)

-----------------------------------------------------------------------------
(* The command executor and the scheduler queries                          *)

\* An is_authorized that lets every user in.
is_authorized_AllowsAll(user_id) == TRUE

is_authorized(user_id) ==
    IF AUTHORIZED_USERS = {} THEN TRUE ELSE user_id \in AUTHORIZED_USERS

\* How one subprocess.run of a scheduler tool can end.
ExitKinds == {"exit0", "nonzero", "oserror"}

\* run_slurm_command(cmd): (success, output), or the exception subprocess.run
\* raises when the tool cannot be started (only CalledProcessError is caught)
run_slurm_command(kind, stdout) ==
    CASE kind = "exit0"   -> [raised |-> FALSE, success |-> TRUE, output |-> stdout]
      [] kind = "nonzero" -> [raised |-> FALSE, success |-> FALSE, output |-> "Error"]
      [] OTHER            -> [raised |-> TRUE, success |-> FALSE, output |-> "OSError"]

\* What `scontrol show job <id>` prints on exit 0, as the key=value pairs the
\* parser of get_job_details finds in it.
ScontrolStdout(job_id) ==
    IF sched[job_id] = "absent" THEN [JobId |-> job_id]
    ELSE [JobId |-> job_id, JobState |-> sched[job_id]]

\* How scontrol can end for a job id: a job the scheduler does not know is a
\* non-zero exit; once stable, the transient failures no longer happen.
ScontrolKinds(job_id) ==
    (IF job_id \in JobIds THEN {"exit0"} ELSE {"nonzero"})
    \cup (IF stable THEN {} ELSE {"nonzero", "oserror"})

Raised == [OSError |-> TRUE]
IsRaised(d) == "OSError" \in DOMAIN d

\* get_job_details(job_id), given how scontrol ended
get_job_details(job_id, kind) ==
    LET run == run_slurm_command(kind,
                   IF job_id \in JobIds THEN ScontrolStdout(job_id) ELSE <<>>)
    IN  IF run.raised THEN Raised
        ELSE IF ~run.success THEN [JobId |-> job_id, Error |-> run.output]
        ELSE run.output

\* line.split(sep) on a line given as the sequence of its tokens: the fields
\* between the separators (an empty line gives one empty field).
RECURSIVE SplitOn(_, _)
SplitOn(line, sep) ==
    IF \A i \in DOMAIN line : line[i] # sep THEN <<line>>
    ELSE LET i == CHOOSE k \in DOMAIN line :
                     line[k] = sep /\ \A m \in 1..(k - 1) : line[m] # sep
         IN  <<SubSeq(line, 1, i - 1)>> \o SplitOn(SubSeq(line, i + 1, Len(line)), sep)

\* A zip that gives every header the first value of the row.
ZipHeaderValues_FirstValue(headers, values) ==
    LET n == Min(Len(headers), Len(values))
    IN  [h \in {headers[i] : i \in 1..n} |-> values[1]]

\* The header and the first data row of a pipe-delimited output, zipped
\* position by position up to the shorter of the two (a later duplicate
\* header overwrites an earlier one).
ZipHeaderValues(headers, values) ==
    LET n == Min(Len(headers), Len(values))
    IN  [h \in {headers[i] : i \in 1..n} |->
            values[CHOOSE i \in 1..n :
                      headers[i] = h /\ \A k \in 1..n : headers[k] = h => k <= i]]

\* The parse of lines[0] and lines[1] of a `-P` output: both are split at
\* '|' and zipped.
ParsePipeOutput(header_line, value_line) ==
    ZipHeaderValues(SplitOn(header_line, "|"), SplitOn(value_line, "|"))

\* What `sacct -P` can print for a finished job: header and first data row.
SacctHeader == <<"JobID", "State", "ExitCode">>
SacctRows == {<<"id", "st", "0:0">>, <<"id", "st", "1:0">>, <<"id", "st">>}
\* How the sacct call of one resource usage query can end.
SacctRuns == {[kind |-> "exit0", row |-> r] : r \in SacctRows}
             \cup {[kind |-> k, row |-> <<>>] : k \in {"nonzero", "oserror"}}
\* (once stable, sacct is started; it may still exit non-zero)
SacctRunsNow == {u \in SacctRuns : stable => u.kind # "oserror"}

\* get_job_resource_usage(job_id) for a job that is not RUNNING: the state
\* is queried again, and a finished job's accounting record is merged in.
get_job_resource_usage(job_id, kind, sacct) ==
    LET job_details == get_job_details(job_id, kind)
        job_state == IF IsRaised(job_details) THEN "UNKNOWN"
                     ELSE DictGet(job_details, "JobState", "UNKNOWN")
        result == [AllocatedCPUs |-> DictGet(job_details, "NumCPUs", 0),
                   AllocatedNodes |-> DictGet(job_details, "NumNodes", "0"),
                   NodeList |-> DictGet(job_details, "NodeList", ""),
                   JobState |-> job_state,
                   JobId |-> DictGet(job_details, "JobId", job_id)]
        run == run_slurm_command(sacct.kind, sacct.row)
    IN  IF IsRaised(job_details) THEN Raised
        ELSE IF job_state \in TERMINAL_STATES
        THEN IF run.raised THEN Raised
             ELSE IF run.success
             THEN [k \in DOMAIN result \cup DOMAIN ZipHeaderValues(SacctHeader, run.output)
                      |-> IF k = "JobState" THEN "COMPLETED"
                          ELSE IF k \in DOMAIN ZipHeaderValues(SacctHeader, run.output)
                          THEN ZipHeaderValues(SacctHeader, run.output)[k]
                          ELSE result[k]]
             ELSE result
        ELSE result

-----------------------------------------------------------------------------
(* The subscription handlers                                               *)

\* The event loop runs a handler only while no other coroutine is running:
\* the tick is not started, or is suspended in its await of send_message.
\* (get_job_details blocks the loop: it is no suspension point.)
LoopFree == tick_pc \in {"idle", "send"}

\* A monitor_job without its "already finished" check.
MonitorJobResult_NoTerminalCheck(job_details) ==
    IF IsRaised(job_details) THEN "raised"
    ELSE IF "Error" \in DOMAIN job_details THEN "cannot_monitor"
    ELSE "now_monitoring"

\* monitor_job up to its return value: what it decides on the fresh query
MonitorJobResult(job_details) ==
    IF IsRaised(job_details) THEN "raised"
    ELSE IF "Error" \in DOMAIN job_details THEN "cannot_monitor"
    ELSE IF DictGet(job_details, "JobState", "UNKNOWN") \in TERMINAL_STATES
    THEN "already_finished"
    ELSE "now_monitoring"

\* monitor_job(update, context, job_id)
monitor_job(user_id, chat_id, raw, kind, now) ==
    LET job_id == CleanJobId(raw)
        job_details == get_job_details(job_id, kind)
        current_state == DictGet(job_details, "JobState", "UNKNOWN")
        entry == [job_id |-> job_id, user_id |-> user_id, chat_id |-> chat_id,
                  last_state |-> current_state, added_time |-> now]
    IN  IF MonitorJobResult(job_details) = "now_monitoring"
        THEN /\ MONITORED_JOBS' = DictSet(MONITORED_JOBS, job_id, entry)
             /\ jobs_file' = save_monitored_jobs(MONITORED_JOBS')
        ELSE UNCHANGED <<MONITORED_JOBS, jobs_file>>

\* A stop_monitoring_job without the ownership check.
StopMonitoringResult_NoOwnerCheck(user_id, job_id) ==
    IF ~HasKey(MONITORED_JOBS, job_id) THEN "not_monitored" ELSE "stopped"

\* stop_monitoring_job up to its return value
StopMonitoringResult(user_id, job_id) ==
    IF ~HasKey(MONITORED_JOBS, job_id) THEN "not_monitored"
    ELSE IF Get(MONITORED_JOBS, job_id).user_id # user_id /\ ~is_authorized(user_id)
    THEN "not_authorized"
    ELSE "stopped"

\* A stop_monitoring_job that deletes the oldest entry, whatever its job.
stop_monitoring_job_DeletesOldest(user_id, raw) ==
    LET job_id == CleanJobId(raw)
    IN  IF StopMonitoringResult(user_id, job_id) = "stopped"
        THEN /\ MONITORED_JOBS' = Tail(MONITORED_JOBS)
             /\ jobs_file' = save_monitored_jobs(MONITORED_JOBS')
        ELSE UNCHANGED <<MONITORED_JOBS, jobs_file>>

\* stop_monitoring_job(update, context, job_id)
stop_monitoring_job(user_id, raw) ==
    LET job_id == CleanJobId(raw)
    IN  IF StopMonitoringResult(user_id, job_id) = "stopped"
        THEN /\ MONITORED_JOBS' = DictDel(MONITORED_JOBS, job_id)
             /\ jobs_file' = save_monitored_jobs(MONITORED_JOBS')
        ELSE UNCHANGED <<MONITORED_JOBS, jobs_file>>

\* /monitor <JOBID> and the monitor_ button: the authorization check of
\* auth_wrapper / button_callback, then monitor_job
MonitorCommand(s, raw, kind, now) ==
    /\ LoopFree
    /\ kind \in ScontrolKinds(CleanJobId(raw))
    /\ IF is_authorized(s.user_id)
       THEN monitor_job(s.user_id, s.chat_id, raw, kind, now)
       ELSE UNCHANGED <<MONITORED_JOBS, jobs_file>>
    /\ UNCHANGED <<sched, stable, AUTHORIZED_USERS, tick_pc, jobs_to_check,
                   notification, observed, delivered, failed_sends, guardVars>>

\* /unmonitor <JOBID> and the unmonitor_ button
UnmonitorCommand(s, raw) ==
    /\ LoopFree
    /\ IF is_authorized(s.user_id)
       THEN stop_monitoring_job(s.user_id, raw)
       ELSE UNCHANGED <<MONITORED_JOBS, jobs_file>>
    /\ UNCHANGED <<sched, stable, AUTHORIZED_USERS, tick_pc, jobs_to_check,
                   notification, observed, delivered, failed_sends, guardVars>>

-----------------------------------------------------------------------------
(* The monitor tick: check_monitored_jobs                                  *)

\* A notification whose interpretation line ignores the exit code.
ComposeNotification_NoInterpretation(job_id, chat_id, current_state, resource_usage) ==
    [job_id |-> job_id, chat_id |-> chat_id, final_state |-> current_state,
     exit_code |-> DictGet(resource_usage, "ExitCode", "none"),
     verdict |-> "none"]

\* The notification text, as far as its content is decided by the job:
\* Final State, Exit Code and the interpretation of the exit code.
ComposeNotification(job_id, chat_id, current_state, resource_usage) ==
    [job_id |-> job_id, chat_id |-> chat_id, final_state |-> current_state,
     exit_code |-> DictGet(resource_usage, "ExitCode", "none"),
     verdict |-> IF "ExitCode" \notin DOMAIN resource_usage THEN "none"
                 ELSE IF resource_usage["ExitCode"] = "0:0"
                 THEN "Job completed successfully"
                 ELSE "Job failed or had errors"]

\* A loop body that returns from the tick where the code continues.
NextItem_Returns(obs) ==
    /\ jobs_to_check' = <<>>
    /\ tick_pc' = "idle"
    /\ observed' = NoObs

\* The for loop moves to the next item of the snapshot, or the tick returns.
NextItem(obs) ==
    /\ jobs_to_check' = Tail(jobs_to_check)
    /\ tick_pc' = IF Tail(jobs_to_check) = <<>> THEN "idle" ELSE "loop"
    /\ observed' = IF Tail(jobs_to_check) = <<>> THEN NoObs ELSE obs

\* An exception leaves check_monitored_jobs: the job queue logs it, and the
\* rest of the snapshot is not visited in this tick.
TickRaises ==
    /\ jobs_to_check' = <<>>
    /\ tick_pc' = "idle"
    /\ observed' = NoObs

\* The job queue starts a tick: return when the registry is empty, else take
\* the snapshot MONITORED_JOBS.copy(). The snapshot shares its item dicts
\* with the registry, but the tick reads each of them once, before it (and
\* only it) changes that item in place, so it reads the values of the copy.
TickStart ==
    /\ tick_pc = "idle"
    /\ IF MONITORED_JOBS = <<>>
       THEN UNCHANGED <<tick_pc, jobs_to_check>>
       ELSE /\ jobs_to_check' = MONITORED_JOBS
            /\ tick_pc' = "loop"
    /\ UNCHANGED <<sched, stable, AUTHORIZED_USERS, MONITORED_JOBS, jobs_file,
                   notification, observed, delivered, failed_sends, guardVars>>

\* The outcomes of the scheduler commands one pass of the loop body runs, in
\* the order it runs them: scontrol for the state, then, for the resource
\* usage, scontrol again and sacct. A command that runs only after an
\* earlier one succeeded has a fixed outcome where it does not run.
SacctNotRun == [kind |-> "exit0", row |-> <<"id", "st">>]
TickRuns ==
    {r \in [kind : ExitKinds, kind2 : ExitKinds, sacct : SacctRuns] :
        /\ r.kind # "exit0" => r.kind2 = "exit0"
        /\ (r.kind # "exit0" \/ r.kind2 # "exit0") => r.sacct = SacctNotRun}

\* An elif branch that drops the entry whose state changed.
UpdateLastState_DropsEntry(job_id, current_state) ==
    /\ MONITORED_JOBS' = DictDel(MONITORED_JOBS, job_id)
    /\ jobs_file' = save_monitored_jobs(MONITORED_JOBS')

\* An elif branch that does not save the registry.
UpdateLastState_NoSave(job_id, current_state) ==
    /\ MONITORED_JOBS' = DictSet(MONITORED_JOBS, job_id,
            [Get(MONITORED_JOBS, job_id) EXCEPT !.last_state = current_state])
    /\ UNCHANGED jobs_file

\* The elif branch of the loop body: the state changed and is not terminal
UpdateLastState(job_id, current_state) ==
    /\ MONITORED_JOBS' = DictSet(MONITORED_JOBS, job_id,
            [Get(MONITORED_JOBS, job_id) EXCEPT !.last_state = current_state])
    /\ jobs_file' = save_monitored_jobs(MONITORED_JOBS')

\* One pass of the loop body up to its await of send_message (or to its end)
TickItem(kind, kind2, sacct) ==
    /\ tick_pc = "loop"
    /\ LET job_info == Head(jobs_to_check)
           job_id == job_info.job_id
           job_details == get_job_details(job_id, kind)
           current_state == DictGet(job_details, "JobState", "UNKNOWN")
           resource_usage == get_job_resource_usage(job_id, kind2, sacct)
       IN  /\ kind \in ScontrolKinds(job_id)
           /\ kind2 \in ScontrolKinds(job_id)
           /\ sacct \in SacctRunsNow
           /\ IF IsRaised(job_details)
              THEN /\ TickRaises
                   /\ UNCHANGED <<MONITORED_JOBS, jobs_file, notification>>
              ELSE IF "Error" \in DOMAIN job_details
              THEN /\ NextItem(Obs("Error", FALSE))
                   /\ UNCHANGED <<MONITORED_JOBS, jobs_file, notification>>
              ELSE IF current_state # job_info.last_state
                      /\ current_state \in TERMINAL_STATES
              THEN IF IsRaised(resource_usage)
                   THEN /\ TickRaises
                        /\ UNCHANGED <<MONITORED_JOBS, jobs_file, notification>>
                   ELSE /\ notification' = ComposeNotification(job_id,
                               job_info.chat_id, current_state, resource_usage)
                        /\ tick_pc' = "send"
                        /\ observed' = Obs(current_state, TRUE)
                        /\ UNCHANGED <<MONITORED_JOBS, jobs_file, jobs_to_check>>
              ELSE IF current_state # job_info.last_state
              THEN IF HasKey(MONITORED_JOBS, job_id)
                   THEN /\ UpdateLastState(job_id, current_state)
                        /\ NextItem(Obs(current_state, TRUE))
                        /\ UNCHANGED notification
                   ELSE \* KeyError: the key was deleted during an await
                        /\ TickRaises
                        /\ UNCHANGED <<MONITORED_JOBS, jobs_file, notification>>
              ELSE /\ NextItem(Obs(current_state, FALSE))
                   /\ UNCHANGED <<MONITORED_JOBS, jobs_file, notification>>
    /\ UNCHANGED <<sched, stable, AUTHORIZED_USERS, delivered, failed_sends,
                   guardVars>>

\* A return of send_message after which the entry stays in the registry.
SendReturns_KeepsEntry ==
    /\ tick_pc = "send"
    /\ delivered' = [delivered EXCEPT ![notification.job_id] =
                        Min(@ + 1, MaxDelivered)]
    /\ notification' = NoNote
    /\ NextItem(observed)
    /\ UNCHANGED <<sched, stable, AUTHORIZED_USERS, MONITORED_JOBS, jobs_file,
                   failed_sends, guardVars>>

\* send_message returns: the entry is deleted and the registry saved (a
\* KeyError of the del is caught by the except of the send, like any
\* exception of send_message itself)
SendReturns ==
    /\ tick_pc = "send"
    /\ delivered' = [delivered EXCEPT ![notification.job_id] =
                        Min(@ + 1, MaxDelivered)]
    /\ IF HasKey(MONITORED_JOBS, notification.job_id)
       THEN /\ MONITORED_JOBS' = DictDel(MONITORED_JOBS, notification.job_id)
            /\ jobs_file' = save_monitored_jobs(MONITORED_JOBS')
       ELSE UNCHANGED <<MONITORED_JOBS, jobs_file>>
    /\ notification' = NoNote
    /\ NextItem(observed)
    /\ UNCHANGED <<sched, stable, AUTHORIZED_USERS, failed_sends, guardVars>>

\* An except branch that gives the entry up when send_message raises.
SendRaises_RemovesEntry ==
    /\ tick_pc = "send"
    /\ ~stable
    /\ failed_sends' = Min(failed_sends + 1, MaxFailedSends)
    /\ MONITORED_JOBS' = DictDel(MONITORED_JOBS, notification.job_id)
    /\ jobs_file' = save_monitored_jobs(MONITORED_JOBS')
    /\ notification' = NoNote
    /\ NextItem(observed)
    /\ UNCHANGED <<sched, stable, AUTHORIZED_USERS, delivered, guardVars>>

\* An except branch that records the observed state in the entry.
SendRaises_StoresState ==
    /\ tick_pc = "send"
    /\ ~stable
    /\ failed_sends' = Min(failed_sends + 1, MaxFailedSends)
    /\ IF HasKey(MONITORED_JOBS, notification.job_id)
       THEN UpdateLastState(notification.job_id, observed.state)
       ELSE UNCHANGED <<MONITORED_JOBS, jobs_file>>
    /\ notification' = NoNote
    /\ NextItem(observed)
    /\ UNCHANGED <<sched, stable, AUTHORIZED_USERS, delivered, guardVars>>

\* send_message raises: logged, the entry is left for the next tick
SendRaises ==
    /\ tick_pc = "send"
    /\ ~stable
    /\ failed_sends' = Min(failed_sends + 1, MaxFailedSends)
    /\ notification' = NoNote
    /\ NextItem(observed)
    /\ UNCHANGED <<sched, stable, AUTHORIZED_USERS, MONITORED_JOBS, jobs_file,
                   delivered, guardVars>>

-----------------------------------------------------------------------------
(* The environment of the bot process                                      *)

\* The scheduler moves a job on; the terminal states are final.
SchedNext(s) ==
    CASE s = "absent"  -> {"PENDING"}
      [] s = "PENDING" -> {"RUNNING", "CANCELLED"}
      [] s = "RUNNING" -> TERMINAL_STATES
      [] OTHER         -> {}

SchedulerStep(j, s) ==
    /\ s \in SchedNext(sched[j])
    /\ sched' = [sched EXCEPT ![j] = s]
    /\ UNCHANGED <<stable, AUTHORIZED_USERS, MONITORED_JOBS, jobs_file, tick_pc,
                   jobs_to_check, notification, observed, delivered, failed_sends,
                   guardVars>>

\* From here on the scheduler tools and the push channel no longer fail.
Stabilize ==
    /\ ~stable
    /\ stable' = TRUE
    /\ UNCHANGED <<sched, AUTHORIZED_USERS, MONITORED_JOBS, jobs_file, tick_pc,
                   jobs_to_check, notification, observed, delivered, failed_sends,
                   guardVars>>

\* The bot process ends at any point and a fresh one starts: main() calls
\* load_monitored_jobs(), and the job queue starts with no tick running.
Restart ==
    /\ MONITORED_JOBS' = load_monitored_jobs(jobs_file)
    /\ tick_pc' = "idle"
    /\ jobs_to_check' = <<>>
    /\ notification' = NoNote
    /\ observed' = NoObs
    /\ UNCHANGED <<sched, stable, AUTHORIZED_USERS, jobs_file, delivered,
                   failed_sends, guardVars>>

\* The file system changes under the bot: the quota is used up or freed,
\* the working directory loses or regains write permission.
DiskStep(mode) ==
    /\ mode # jobs_file.disk
    /\ jobs_file' = [jobs_file EXCEPT !.disk = mode]
    /\ UNCHANGED <<sched, stable, AUTHORIZED_USERS, MONITORED_JOBS, tick_pc,
                   jobs_to_check, notification, observed, delivered, failed_sends,
                   guardVars>>

\* How far a save_monitored_jobs() got when the process died: before
\* open(..., 'w'), after open truncated the file and before json.dump wrote
\* the text out, or after the with block closed the file.
CrashPoints == {"before_open", "after_open", "after_dump"}

\* MONITORED_JOBS_FILE as a save_monitored_jobs() of reg leaves it when the
\* process dies at the point.
CrashedSave(reg, point) ==
    CASE point = "before_open" -> jobs_file
      [] point = "after_open" /\ jobs_file.disk # "denied" ->
            [jobs_file EXCEPT !.exists = TRUE, !.intact = FALSE, !.text = <<>>]
      [] OTHER -> save_monitored_jobs(reg)

\* The process dies in a handler at the save of the mutated registry, and a
\* fresh process starts: main() loads the registry from what the file holds.
CrashInSave(after, point) ==
    /\ jobs_file' = CrashedSave(after, point)
    /\ MONITORED_JOBS' = load_monitored_jobs(jobs_file')
    /\ tick_pc' = "idle"
    /\ jobs_to_check' = <<>>
    /\ notification' = NoNote
    /\ observed' = NoObs
    /\ UNCHANGED <<sched, stable, AUTHORIZED_USERS, delivered, failed_sends,
                   guardVars>>

\* The registry after an accepted monitor_job, before it is saved
Subscribed(s, raw, kind, now) ==
    LET job_id == CleanJobId(raw)
        current_state == DictGet(get_job_details(job_id, kind), "JobState",
                                 "UNKNOWN")
    IN  DictSet(MONITORED_JOBS, job_id,
                [job_id |-> job_id, user_id |-> s.user_id,
                 chat_id |-> s.chat_id, last_state |-> current_state,
                 added_time |-> now])

\* /monitor <JOBID> where the process dies in the save of monitor_job
MonitorCrashes(s, raw, kind, now, point) ==
    /\ LoopFree
    /\ kind \in ScontrolKinds(CleanJobId(raw))
    /\ is_authorized(s.user_id)
    /\ MonitorJobResult(get_job_details(CleanJobId(raw), kind)) = "now_monitoring"
    /\ CrashInSave(Subscribed(s, raw, kind, now), point)

\* /unmonitor <JOBID> where the process dies in the save of
\* stop_monitoring_job
UnmonitorCrashes(s, raw, point) ==
    /\ LoopFree
    /\ is_authorized(s.user_id)
    /\ StopMonitoringResult(s.user_id, CleanJobId(raw)) = "stopped"
    /\ CrashInSave(DictDel(MONITORED_JOBS, CleanJobId(raw)), point)

\* A scheduler tool that was started never exits: subprocess.run has no
\* timeout argument and waits for it, and as the call is synchronous the
\* event loop runs no handler and no further step of the tick.
RunNeverReturns ==
    /\ tick_pc = "loop"
    /\ tick_pc' = "blocked"
    /\ UNCHANGED <<sched, stable, AUTHORIZED_USERS, MONITORED_JOBS, jobs_file,
                   jobs_to_check, notification, observed, delivered, failed_sends,
                   guardVars>>

-----------------------------------------------------------------------------
(* The single-instance guard: the processes of one operator                *)

\* The process ids of the bot processes the operator starts.
Procs == {1, 2, 3}
\* The values USER_PORT (49152 + hash(CURRENT_USER) % 1000) takes in them:
\* hash() of a str is salted per process, so two processes of one operator
\* may compute the same port or different ports.
Ports == {1, 2}
\* The files that were ever created at LOCK_FILE_PATH; 0 is no file.
Inodes == 1..(Cardinality(Procs) + 1)

\* lock_file: None, an open file object (the inode), or a closed file object
FileNone == 0
FileClosed == -1

Alive(q) == pc[q] \notin {"idle", "exited", "killed"}

\* The process holds a lockf lock (on a file that may since be unlinked).
HoldsAnyLock(q) == \E i \in Inodes : inode_lock[i] = q
\* The process holds the lockf lock on the file now at LOCK_FILE_PATH.
HoldsFileLock(q) == lock_path # 0 /\ inode_lock[lock_path] = q
\* The process has its lock socket bound.
HoldsPort(q) == lock_socket[q] = "bound"

\* An inode no path and no open file refers to: what open() creates.
FreshInode ==
    CHOOSE i \in Inodes :
        /\ i # lock_path
        /\ \A q \in Procs : Alive(q) => lock_file[q] # i
        /\ \A k \in Inodes :
              (k # lock_path /\ \A q \in Procs : Alive(q) => lock_file[q] # k)
                 => i <= k

\* The kernel's view when a process ends: its locks and its port are gone.
LocksWithout(q) == [i \in Inodes |-> IF inode_lock[i] = q THEN 0 ELSE inode_lock[i]]

\* history with the events es appended to what process p has done
Logged(p, es) == [history EXCEPT ![p] = @ \o es]
\* what process p has done so far
Events(p) == {history[p][i] : i \in DOMAIN history[p]}

\* main() begins in a new process
Start(p) ==
    /\ pc[p] = "idle"
    /\ pc' = [pc EXCEPT ![p] = "enumerate"]
    /\ UNCHANGED <<found, user_port, lock_file, lock_socket, lock_path,
                   inode_pid, inode_lock, monVars, history>>

\* kill_running_bot_processes, methods 1 to 3: `ps -ef` and `pgrep` list the
\* other bot processes of the user, or fail and list none; the pid in the
\* lock file is added; the lock file is removed. Closing the file read here
\* drops a lockf lock the caller itself holds on it.
Enumerate(p, listing_works) ==
    /\ pc[p] = "enumerate"
    /\ LET processes == IF listing_works
                        THEN {q \in Procs \ {p} : Alive(q)} ELSE {}
           pid == IF lock_path # 0 THEN inode_pid[lock_path] ELSE 0
       IN  found' = [found EXCEPT ![p] =
                       processes \cup (IF pid # 0 /\ pid # p THEN {pid} ELSE {})]
    /\ inode_lock' = IF lock_path # 0 /\ inode_lock[lock_path] = p
                     THEN [inode_lock EXCEPT ![lock_path] = 0] ELSE inode_lock
    /\ lock_path' = 0
    /\ pc' = [pc EXCEPT ![p] = "kill"]
    /\ UNCHANGED <<user_port, lock_file, lock_socket, inode_pid, monVars, history>>

\* A process receives SIGTERM, and SIGKILL if it outlives it: it ends. With
\* `graceful`, a process that runs the bot gets to cleanup_on_exit first,
\* which also removes the file at LOCK_FILE_PATH.
Terminated(q, graceful) ==
    /\ pc' = [pc EXCEPT ![q] = IF Alive(q) THEN "killed" ELSE pc[q]]
    /\ inode_lock' = IF Alive(q) THEN LocksWithout(q) ELSE inode_lock
    /\ lock_socket' = IF Alive(q) /\ lock_socket[q] = "bound"
                      THEN [lock_socket EXCEPT ![q] = "closed"] ELSE lock_socket
    /\ lock_path' = IF Alive(q) /\ graceful /\ pc[q] = "running"
                    THEN 0 ELSE lock_path

\* kill_running_bot_processes, the kill loop: one collected pid
KillOne(p, q, graceful) ==
    /\ pc[p] = "kill"
    /\ q \in found[p]
    /\ found' = [found EXCEPT ![p] = @ \ {q}]
    /\ Terminated(q, graceful)
    /\ UNCHANGED <<user_port, lock_file, inode_pid, monVars, history>>

\* Where main() goes on when kill_running_bot_processes returns: to
\* check_running_instance at the start, to the sleep before the next
\* attempt in the except branch for Conflict.
AfterKill(p) ==
    IF history[p] # <<>> /\ history[p][Len(history[p])] = "Conflict"
    THEN "waiting" ELSE "open"

\* kill_running_bot_processes, the end: the test bind of USER_PORT, `fuser
\* -k` on it when it is taken (which ends the holder, or finds nothing), and
\* the second removal of the lock file
FreePort(p, fuser_kills) ==
    /\ pc[p] = "kill"
    /\ found[p] = {}
    /\ LET holders == {q \in Procs \ {p} :
                          HoldsPort(q) /\ user_port[q] = user_port[p]}
       IN  IF holders # {} /\ fuser_kills
           THEN /\ pc' = [q \in Procs |->
                            IF q = p THEN AfterKill(p)
                            ELSE IF q \in holders THEN "killed" ELSE pc[q]]
                /\ inode_lock' = [i \in Inodes |->
                            IF inode_lock[i] \in holders THEN 0 ELSE inode_lock[i]]
                /\ lock_socket' = [q \in Procs |->
                            IF q \in holders THEN "closed" ELSE lock_socket[q]]
           ELSE /\ pc' = [pc EXCEPT ![p] = AfterKill(p)]
                /\ UNCHANGED <<inode_lock, lock_socket>>
    /\ lock_path' = 0
    /\ UNCHANGED <<found, user_port, lock_file, inode_pid, monVars, history>>

\* check_running_instance: open(LOCK_FILE_PATH, 'w') creates the file or
\* truncates the one that is there
OpenLockFile(p) ==
    /\ pc[p] = "open"
    /\ LET i == IF lock_path # 0 THEN lock_path ELSE FreshInode
       IN  /\ lock_path' = i
           /\ inode_pid' = [inode_pid EXCEPT ![i] = 0]
           /\ inode_lock' = IF lock_path # 0 THEN inode_lock
                            ELSE [inode_lock EXCEPT ![i] = 0]
           /\ lock_file' = [lock_file EXCEPT ![p] = i]
    /\ pc' = [pc EXCEPT ![p] = "lockf"]
    /\ UNCHANGED <<found, user_port, lock_socket, monVars, history>>

\* A lockf that takes the lock whoever holds it.
LockFile_IgnoresHolder(p) ==
    /\ pc[p] = "lockf"
    /\ inode_lock' = [inode_lock EXCEPT ![lock_file[p]] = p]
    /\ inode_pid' = [inode_pid EXCEPT ![lock_file[p]] = p]
    /\ pc' = [pc EXCEPT ![p] = "bind"]
    /\ UNCHANGED <<lock_file, found, user_port, lock_socket, lock_path, monVars, history>>

\* check_running_instance: lockf(LOCK_EX | LOCK_NB), then the pid is written;
\* on IOError the file is closed and False returned
LockFile(p) ==
    /\ pc[p] = "lockf"
    /\ LET i == lock_file[p]
       IN  IF inode_lock[i] \notin {0, p}
           THEN /\ lock_file' = [lock_file EXCEPT ![p] = FileClosed]
                /\ pc' = [pc EXCEPT ![p] = "refused"]
                /\ history' = Logged(p, <<"acquire_false">>)
                /\ UNCHANGED <<inode_lock, inode_pid>>
           ELSE /\ inode_lock' = [inode_lock EXCEPT ![i] = p]
                /\ inode_pid' = [inode_pid EXCEPT ![i] = p]
                /\ pc' = [pc EXCEPT ![p] = "bind"]
                /\ UNCHANGED <<lock_file, history>>
    /\ UNCHANGED <<found, user_port, lock_socket, lock_path, monVars>>

\* A bind whose except branch returns False without closing the lock file.
BindSocket_KeepsFileLock(p) ==
    /\ pc[p] = "bind"
    /\ IF \E q \in Procs \ {p} : HoldsPort(q) /\ user_port[q] = user_port[p]
       THEN /\ lock_socket' = [lock_socket EXCEPT ![p] = "unbound"]
            /\ pc' = [pc EXCEPT ![p] = "refused"]
            /\ history' = Logged(p, <<"acquire_false">>)
       ELSE /\ lock_socket' = [lock_socket EXCEPT ![p] = "bound"]
            /\ pc' = [pc EXCEPT ![p] = "acquired"]
            /\ history' = Logged(p, <<"acquire_true">>)
    /\ UNCHANGED <<lock_file, inode_lock, found, user_port, lock_path, inode_pid,
                   monVars>>

\* check_running_instance: bind(('localhost', USER_PORT)); on socket.error
\* the lock file is closed (which drops the lock) and False returned
BindSocket(p) ==
    /\ pc[p] = "bind"
    /\ IF \E q \in Procs \ {p} : HoldsPort(q) /\ user_port[q] = user_port[p]
       THEN /\ lock_socket' = [lock_socket EXCEPT ![p] = "unbound"]
            /\ lock_file' = [lock_file EXCEPT ![p] = FileClosed]
            /\ inode_lock' = LocksWithout(p)
            /\ pc' = [pc EXCEPT ![p] = "refused"]
            /\ history' = Logged(p, <<"acquire_false">>)
       ELSE /\ lock_socket' = [lock_socket EXCEPT ![p] = "bound"]
            /\ pc' = [pc EXCEPT ![p] = "acquired"]
            /\ history' = Logged(p, <<"acquire_true">>)
            /\ UNCHANGED <<lock_file, inode_lock>>
    /\ UNCHANGED <<found, user_port, lock_path, inode_pid, monVars>>

\* main() after check_running_instance returned False: return 1
ExitRefused(p) ==
    /\ pc[p] = "refused"
    /\ pc' = [pc EXCEPT ![p] = "exited"]
    /\ inode_lock' = LocksWithout(p)
    /\ UNCHANGED <<found, user_port, lock_file, lock_socket, lock_path,
                   inode_pid, monVars, history>>

\* A main() that goes on whatever check_running_instance returned.
RunBot_IgnoresAcquire(p) ==
    /\ pc[p] \in {"acquired", "refused"}
    /\ pc' = [pc EXCEPT ![p] = "running"]
    /\ history' = Logged(p, <<"load_monitored_jobs", "run_repeating">>)
    /\ UNCHANGED <<found, user_port, lock_file, lock_socket, lock_path,
                   inode_pid, inode_lock, monVars>>

\* main() after check_running_instance returned True: the signal handlers,
\* load_monitored_jobs, the job queue with the monitor tick, run_polling
RunBot(p) ==
    /\ pc[p] = "acquired"
    /\ pc' = [pc EXCEPT ![p] = "running"]
    /\ history' = Logged(p, <<"load_monitored_jobs", "run_repeating">>)
    /\ UNCHANGED <<found, user_port, lock_file, lock_socket, lock_path,
                   inode_pid, inode_lock, monVars>>

\* The job queue of a polling process calls check_monitored_jobs for the
\* first time (first=10), and with it the process queries the scheduler.
FirstTick(p) ==
    /\ pc[p] = "running"
    /\ "check_monitored_jobs" \notin Events(p)
    /\ history' = Logged(p, <<"check_monitored_jobs">>)
    /\ UNCHANGED <<pc, found, user_port, lock_file, lock_socket, lock_path,
                   inode_pid, inode_lock, monVars>>

\* The lock state release_locks() works on: the two module globals and the
\* locks the kernel records.
LockState ==
    [lock_file |-> lock_file, lock_socket |-> lock_socket,
     inode_lock |-> inode_lock, raised |-> FALSE]

\* A release_locks() that closes the lock file and forgets the socket.
release_locks_KeepsSocket(st, p) ==
    [lock_file |-> [st.lock_file EXCEPT ![p] =
                       IF @ = FileNone THEN FileNone ELSE FileClosed],
     inode_lock |-> IF st.lock_file[p] = FileNone THEN st.inode_lock
                    ELSE [i \in Inodes |-> IF st.inode_lock[i] = p THEN 0
                                           ELSE st.inode_lock[i]],
     lock_socket |-> st.lock_socket,
     raised |-> FALSE]

\* release_locks() in process p, as a function of the lock state: "if
\* lock_file: lock_file.close()" (closing drops every lock of the process
\* on the file; closing a closed file does nothing), then the same for
\* lock_socket; each close sits in its own try/except Exception, so nothing
\* is raised to the caller.
release_locks_from(st, p) ==
    [lock_file |-> [st.lock_file EXCEPT ![p] =
                       IF @ = FileNone THEN FileNone ELSE FileClosed],
     inode_lock |-> IF st.lock_file[p] = FileNone THEN st.inode_lock
                    ELSE [i \in Inodes |-> IF st.inode_lock[i] = p THEN 0
                                           ELSE st.inode_lock[i]],
     lock_socket |-> [st.lock_socket EXCEPT ![p] =
                         IF @ = "none" THEN "none" ELSE "closed"],
     raised |-> FALSE]

\* release_locks(): close the lock file and the lock socket, if set
release_locks(p) ==
    LET r == release_locks_from(LockState, p)
    IN  /\ lock_file' = r.lock_file
        /\ inode_lock' = r.inode_lock
        /\ lock_socket' = r.lock_socket

\* The retry loop of main(): for startup_attempt in range(max_startup_attempts)
max_startup_attempts == 5

\* How run_polling can fail in an attempt.
PollingErrors == {"Conflict", "NetworkError"}

\* startup_attempt of process p: every pass of the loop sets up the job
\* queue once.
startup_attempt(p) ==
    Cardinality({i \in DOMAIN history[p] : history[p][i] = "run_repeating"}) - 1

\* A wait before the retry that gets shorter with every attempt.
ConflictWait_Shrinking(attempt) == 300 - (attempt * 60)

\* wait_time of the except branch for Conflict
ConflictWait(attempt) == 120 + (attempt * 60)

\* wait_time of the except branch for NetworkError
NetworkWait(attempt) == 30 + (attempt * 30)

\* The seconds of the time.sleep process p is in before its next attempt.
wait_time(p) ==
    IF pc[p] # "waiting" THEN 0
    ELSE IF history[p][Len(history[p])] = "Conflict"
    THEN ConflictWait(startup_attempt(p))
    ELSE NetworkWait(startup_attempt(p))

\* run_polling of process p raises: before the last attempt, on Conflict
\* kill_running_bot_processes() and aggressive_webhook_cleanup() and then
\* the sleep, on NetworkError the sleep; in the last attempt
\* release_locks() and return 1.
PollingFails(p, kind) ==
    /\ pc[p] = "running"
    /\ IF startup_attempt(p) < max_startup_attempts - 1
       THEN /\ pc' = [pc EXCEPT ![p] =
                         IF kind = "Conflict" THEN "enumerate" ELSE "waiting"]
            /\ history' = Logged(p, <<kind>>)
            /\ UNCHANGED <<lock_file, inode_lock, lock_socket>>
       ELSE /\ release_locks(p)
            /\ pc' = [pc EXCEPT ![p] = "exited"]
            /\ history' = Logged(p, <<kind, "return_1">>)
    /\ UNCHANGED <<found, user_port, lock_path, inode_pid, monVars>>

\* The sleep is over: the next pass of the loop builds the application, sets
\* up the job queue and calls run_polling.
Retry(p) ==
    /\ pc[p] = "waiting"
    /\ pc' = [pc EXCEPT ![p] = "running"]
    /\ history' = Logged(p, <<"run_repeating">>)
    /\ UNCHANGED <<found, user_port, lock_file, lock_socket, lock_path,
                   inode_pid, inode_lock, monVars>>

\* The bot stops (Ctrl+C, /shutdown): release_locks()
Release(p) ==
    /\ pc[p] = "running"
    /\ release_locks(p)
    /\ pc' = [pc EXCEPT ![p] = "released"]
    /\ UNCHANGED <<found, user_port, lock_path, inode_pid, monVars, history>>

\* ... and the process ends: cleanup_on_exit removes the file at
\* LOCK_FILE_PATH, the shutdown button's os._exit(0) does not
ExitReleased(p, removes) ==
    /\ pc[p] = "released"
    /\ pc' = [pc EXCEPT ![p] = "exited"]
    /\ lock_path' = IF removes THEN 0 ELSE lock_path
    /\ UNCHANGED <<found, user_port, lock_file, lock_socket, inode_pid,
                   inode_lock, monVars, history>>

\* SIGINT or SIGTERM once main() has installed signal_handler:
\* cleanup_on_exit() (release_locks(), then the file at LOCK_FILE_PATH is
\* removed) and sys.exit(0). The signal may come after a release_locks() of
\* the shutdown path has already run.
SignalHandler(p) ==
    /\ pc[p] \in {"running", "released"}
    /\ release_locks(p)
    /\ lock_path' = 0
    /\ pc' = [pc EXCEPT ![p] = "exited"]
    /\ UNCHANGED <<found, user_port, inode_pid, monVars, history>>

-----------------------------------------------------------------------------
(* The specifications                                                      *)

MonInit ==
    /\ sched \in [JobIds -> {"absent", "PENDING"}]
    /\ stable = FALSE
    /\ AUTHORIZED_USERS \in {{}, {1}}
    /\ jobs_file = NoFile
    /\ MONITORED_JOBS = load_monitored_jobs(jobs_file)
    /\ tick_pc = "idle"
    /\ jobs_to_check = <<>>
    /\ notification = NoNote
    /\ observed = NoObs
    /\ delivered = [j \in JobIds |-> 0]
    /\ failed_sends = 0

\* No process of the operator has started; no lock file exists.
GuardIdle ==
    /\ pc = [p \in Procs |-> "idle"]
    /\ found = [p \in Procs |-> {}]
    /\ lock_file = [p \in Procs |-> FileNone]
    /\ lock_socket = [p \in Procs |-> "none"]
    /\ lock_path = 0
    /\ inode_pid = [i \in Inodes |-> 0]
    /\ inode_lock = [i \in Inodes |-> 0]
    /\ history = [p \in Procs |-> <<>>]

Init ==
    /\ MonInit
    /\ GuardIdle
    /\ user_port = [p \in Procs |-> 1]

MonNext ==
    \/ \E s \in Senders, raw \in RawIds, kind \in ExitKinds, now \in Times :
          MonitorCommand(s, raw, kind, now)
    \/ \E s \in Senders, raw \in RawIds : UnmonitorCommand(s, raw)
    \/ TickStart
    \/ \E r \in TickRuns : TickItem(r.kind, r.kind2, r.sacct)
    \/ SendReturns
    \/ SendRaises
    \/ \E j \in JobIds, s \in SchedStates : SchedulerStep(j, s)

Next == MonNext \/ Restart

Spec == Init /\ [][Next]_vars

\* The job queue runs check_monitored_jobs every 60 seconds
\* (run_repeating, src/green-boy.py:2203), and a started tick runs on.
TickNext ==
    \/ TickStart
    \/ \E r \in TickRuns : TickItem(r.kind, r.kind2, r.sacct)
    \/ SendReturns
    \/ SendRaises

FairNext == MonNext \/ Stabilize

\* The bot of an operator who set GREENBOY_AUTH_USERS.
FairInit == Init /\ AUTHORIZED_USERS = {1}

FairSpec == FairInit /\ [][FairNext]_vars /\ WF_vars(TickNext)

\* The bot where the scheduler tools and the push channel work and the file
\* system may fail.
DiskInit ==
    /\ sched = [j \in JobIds |-> "PENDING"]
    /\ stable = TRUE
    /\ AUTHORIZED_USERS = {}
    /\ jobs_file = NoFile
    /\ MONITORED_JOBS = load_monitored_jobs(jobs_file)
    /\ tick_pc = "idle"
    /\ jobs_to_check = <<>>
    /\ notification = NoNote
    /\ observed = NoObs
    /\ delivered = [j \in JobIds |-> 0]
    /\ failed_sends = 0
    /\ GuardIdle
    /\ user_port = [p \in Procs |-> 1]

\* One user, job ids typed as the scheduler prints them, jobs that run and
\* complete.
DiskNext ==
    \/ \E raw \in JobIds, kind \in ExitKinds, now \in Times :
          MonitorCommand([user_id |-> 1, chat_id |-> 10], raw, kind, now)
    \/ \E raw \in JobIds : UnmonitorCommand([user_id |-> 1, chat_id |-> 10], raw)
    \/ TickStart
    \/ \E r \in TickRuns : TickItem(r.kind, r.kind2, r.sacct)
    \/ SendReturns
    \/ \E j \in JobIds, s \in {"RUNNING", "COMPLETED"} : SchedulerStep(j, s)
    \/ Restart
    \/ \E mode \in DiskModes : DiskStep(mode)

DiskSpec == DiskInit /\ [][DiskNext]_vars

\* datetime.now() at the subscriptions, where the model tells an earlier
\* from a later one.
TwoTimes == {1, 2}

\* The bot with a working file system, two users who subscribe at different
\* times, jobs that run and complete.
SubscribeNext ==
    \/ \E s \in Senders, raw \in JobIds, kind \in ExitKinds, now \in TwoTimes :
          MonitorCommand(s, raw, kind, now)
    \/ \E s \in Senders, raw \in JobIds : UnmonitorCommand(s, raw)
    \/ TickStart
    \/ \E r \in TickRuns : TickItem(r.kind, r.kind2, r.sacct)
    \/ SendReturns
    \/ \E j \in JobIds, s \in {"RUNNING", "COMPLETED"} : SchedulerStep(j, s)

SubscribeSpec == DiskInit /\ [][SubscribeNext]_vars

\* The bot with a working file system, whose process may die while a
\* handler saves the registry.
CrashNext ==
    \/ SubscribeNext
    \/ \E s \in Senders, raw \in JobIds, kind \in ExitKinds, now \in TwoTimes,
          point \in CrashPoints : MonitorCrashes(s, raw, kind, now, point)
    \/ \E s \in Senders, raw \in JobIds, point \in CrashPoints :
          UnmonitorCrashes(s, raw, point)

CrashSpec == DiskInit /\ [][CrashNext]_vars

\* The bot with a working file system and push channel, where a scheduler
\* tool may hang.
HangNext == SubscribeNext \/ RunNeverReturns

HangSpec == DiskInit /\ [][HangNext]_vars /\ WF_vars(TickNext)

GuardInit ==
    /\ sched = [j \in JobIds |-> "PENDING"]
    /\ stable = FALSE
    /\ AUTHORIZED_USERS = {}
    /\ jobs_file = NoFile
    /\ MONITORED_JOBS = <<>>
    /\ tick_pc = "idle"
    /\ jobs_to_check = <<>>
    /\ notification = NoNote
    /\ observed = NoObs
    /\ delivered = [j \in JobIds |-> 0]
    /\ failed_sends = 0
    /\ GuardIdle
    /\ user_port \in [Procs -> Ports]

GuardNext ==
    \/ \E p \in Procs : Start(p)
    \/ \E p \in Procs, listing_works \in BOOLEAN : Enumerate(p, listing_works)
    \/ \E p \in Procs, q \in Procs, graceful \in BOOLEAN : KillOne(p, q, graceful)
    \/ \E p \in Procs, fuser_kills \in BOOLEAN : FreePort(p, fuser_kills)
    \/ \E p \in Procs : OpenLockFile(p)
    \/ \E p \in Procs : LockFile(p)
    \/ \E p \in Procs : BindSocket(p)
    \/ \E p \in Procs : ExitRefused(p)
    \/ \E p \in Procs : RunBot(p)
    \/ \E p \in Procs : FirstTick(p)
    \/ \E p \in Procs : Release(p)
    \/ \E p \in Procs : SignalHandler(p)
    \/ \E p \in Procs, removes \in BOOLEAN : ExitReleased(p, removes)

GuardSpec == GuardInit /\ [][GuardNext]_vars

\* One bot process whose run_polling may fail in every attempt, and a second
\* process of the operator that starts meanwhile.
StartupNext ==
    \/ \E p \in {1, 2} : Start(p)
    \/ \E p \in {1, 2}, listing_works \in BOOLEAN : Enumerate(p, listing_works)
    \/ \E p \in {1, 2}, q \in {1, 2}, graceful \in BOOLEAN : KillOne(p, q, graceful)
    \/ \E p \in {1, 2}, fuser_kills \in BOOLEAN : FreePort(p, fuser_kills)
    \/ \E p \in {1, 2} : OpenLockFile(p)
    \/ \E p \in {1, 2} : LockFile(p)
    \/ \E p \in {1, 2} : BindSocket(p)
    \/ \E p \in {1, 2} : ExitRefused(p)
    \/ \E p \in {1, 2} : RunBot(p)
    \/ \E kind \in PollingErrors : PollingFails(1, kind)
    \/ Retry(1)

StartupSpec == GuardInit /\ [][StartupNext]_vars

-----------------------------------------------------------------------------
(* Properties of the monitor loop and the subscription handlers            *)

\* A step of check_monitored_jobs (the others leave its position alone).
TickStep == <<tick_pc, jobs_to_check>>' # <<tick_pc, jobs_to_check>>

\* The step removes the entry of job k from the registry.
Removes(k) == HasKey(MONITORED_JOBS, k) /\ ~HasKey(MONITORED_JOBS', k)

\* C1: a step of the tick removes an entry if and only if the tick's state
\* query gave a terminal state for it and send_message returned for its
\* notification without raising.
C1_TickRemovesIffTerminalAndSent ==
    [][\A k \in JobIds :
          /\ (TickStep /\ Removes(k)) =>
                /\ tick_pc = "send"
                /\ observed.state \in TERMINAL_STATES
                /\ notification.job_id = k
                /\ notification.final_state = observed.state
                /\ delivered'[k] = delivered[k] + 1
          /\ (SendReturns /\ notification.job_id = k /\ HasKey(MONITORED_JOBS, k))
                => Removes(k)
          /\ (SendRaises \/ tick_pc # "send") /\ TickStep => ~Removes(k)
      ]_vars

\* A tick has sent a notification for job k and has deleted its entry.
C1_Witness ==
    \E k \in JobIds :
        /\ delivered[k] = 1
        /\ ~HasKey(MONITORED_JOBS, k)
        /\ sched[k] \in TERMINAL_STATES

\* The state query of the loop body for the head of the snapshot, run with
\* outcome kind, returns a terminal state.
ObservesTerminal(kind) ==
    LET d == get_job_details(Head(jobs_to_check).job_id, kind)
    IN  /\ ~IsRaised(d)
        /\ "Error" \notin DOMAIN d
        /\ DictGet(d, "JobState", "UNKNOWN") \in TERMINAL_STATES

\* The tick goes on to await send_message for job k.
AttemptsDispatch(k) == tick_pc' = "send" /\ notification'.job_id = k

\* C2: when send_message raises for an entry whose terminal state the tick
\* observed, the entry stays in the registry with its last_state unchanged,
\* and every tick that again observes the terminal state attempts the
\* dispatch again, however many dispatches have failed before.
C2_FailedDispatchIsRetried ==
    [][/\ SendRaises => UNCHANGED <<MONITORED_JOBS, jobs_file>>
       /\ tick_pc = "loop" =>
             \A r \in TickRuns :
                (ObservesTerminal(r.kind) /\ TickItem(r.kind, r.kind2, r.sacct))
                   => AttemptsDispatch(Head(jobs_to_check).job_id)
      ]_vars

\* C2, what the loop guarantees: the retry happens in every tick that
\* observes the terminal state and whose resource usage query returns.
C2_FailedDispatchIsRetriedWhenUsageReturns ==
    [][/\ SendRaises => UNCHANGED <<MONITORED_JOBS, jobs_file>>
       /\ tick_pc = "loop" =>
             \A r \in TickRuns :
                (/\ ObservesTerminal(r.kind)
                 /\ ~IsRaised(get_job_resource_usage(
                         Head(jobs_to_check).job_id, r.kind2, r.sacct))
                 /\ TickItem(r.kind, r.kind2, r.sacct))
                   => AttemptsDispatch(Head(jobs_to_check).job_id)
      ]_vars

\* A dispatch has failed, the entry is still there, and a later tick is
\* again awaiting send_message for it.
C2_Witness ==
    /\ failed_sends >= 1
    /\ tick_pc = "send"
    /\ HasKey(MONITORED_JOBS, notification.job_id)
    /\ Get(MONITORED_JOBS, notification.job_id).last_state \notin TERMINAL_STATES

\* The step leaves the registry and its file alone and sends nothing, and
\* the loop goes on with the rest of the snapshot.
SkipsEntry ==
    /\ UNCHANGED <<MONITORED_JOBS, jobs_file, notification, delivered>>
    /\ jobs_to_check' = Tail(jobs_to_check)
    /\ tick_pc' = IF Tail(jobs_to_check) = <<>> THEN "idle" ELSE "loop"

\* C3: when the state query for an entry fails during a tick, the tick
\* leaves the entry and the persisted registry unchanged, dispatches no
\* notification for it, and continues with the remaining entries.
C3_FailedQuerySkipsEntry ==
    [][tick_pc = "loop" =>
          \A r \in TickRuns :
             (r.kind # "exit0" /\ TickItem(r.kind, r.kind2, r.sacct))
                => SkipsEntry
      ]_vars

\* C3, what the loop guarantees: a query that ends with a non-zero exit
\* status is skipped and the loop continues.
C3_NonZeroExitSkipsEntry ==
    [][tick_pc = "loop" =>
          \A r \in TickRuns :
             (r.kind = "nonzero" /\ TickItem(r.kind, r.kind2, r.sacct))
                => SkipsEntry
      ]_vars

\* A tick has skipped an entry whose query failed and is at the next one.
C3_Witness ==
    /\ observed.state = "Error"
    /\ tick_pc = "loop"
    /\ jobs_to_check # <<>>

\* C4: once the scheduler tools and the push channel no longer fail, the
\* entry of a monitored job in a terminal state is eventually removed, with
\* ticks recurring fairly and whatever failures happened before; and a tick
\* removes an entry only with a delivered notification, so the entry goes
\* with its notification unless the subscription is cancelled first.
C4_TerminalEventuallyNotified ==
    /\ \A k \in JobIds :
          (stable /\ sched[k] \in TERMINAL_STATES /\ HasKey(MONITORED_JOBS, k))
             ~> ~HasKey(MONITORED_JOBS, k)
    /\ [][\A k \in JobIds :
             (TickStep /\ Removes(k)) => delivered'[k] = delivered[k] + 1]_vars

\* A terminal job is still monitored after a dispatch for it failed and a
\* query failed, and the failures have stopped.
C4_Witness ==
    \E k \in JobIds :
        /\ stable
        /\ failed_sends >= 1
        /\ sched[k] \in TERMINAL_STATES
        /\ HasKey(MONITORED_JOBS, k)
        /\ delivered[k] = 0

\* The fresh state query of monitor_job for job_id, run with outcome kind,
\* returns a terminal state.
QueriedTerminal(job_id, kind) ==
    LET d == get_job_details(job_id, kind)
    IN  /\ ~IsRaised(d)
        /\ "Error" \notin DOMAIN d
        /\ DictGet(d, "JobState", "UNKNOWN") \in TERMINAL_STATES

\* C5: subscribing to a job whose freshly queried state is terminal is
\* always rejected and leaves the registry and its file unchanged, whether
\* or not the registry holds an entry for the job.
C5_TerminalSubscribeRejected ==
    [][\A k \in JobIds, kind \in ExitKinds :
          QueriedTerminal(k, kind) =>
             /\ MonitorJobResult(get_job_details(k, kind)) = "already_finished"
             /\ \/ UNCHANGED <<MONITORED_JOBS, jobs_file>>
                \/ \A s \in Senders, raw \in RawIds, now \in Times :
                      ~(CleanJobId(raw) = k /\ MonitorCommand(s, raw, kind, now))
      ]_vars

\* A subscribe can arrive for a terminal job that has an entry, and for one
\* that has none.
C5_Witness ==
    /\ LoopFree
    /\ \E k \in JobIds : sched[k] \in TERMINAL_STATES /\ HasKey(MONITORED_JOBS, k)
    /\ \E k \in JobIds : sched[k] \in TERMINAL_STATES /\ ~HasKey(MONITORED_JOBS, k)

\* C6: a tick that observes for an entry a non-terminal state other than its
\* last_state sets last_state to it, persists the registry and dispatches
\* nothing; a tick that observes the entry's last_state changes nothing and
\* dispatches nothing.
C6_NonTerminalChangeUpdatesOnly ==
    [][tick_pc = "loop" =>
          \A r \in TickRuns :
             LET job_info == Head(jobs_to_check)
                 job_id == job_info.job_id
                 d == get_job_details(job_id, r.kind)
                 current_state == DictGet(d, "JobState", "UNKNOWN")
             IN  (/\ ~IsRaised(d)
                  /\ "Error" \notin DOMAIN d
                  /\ current_state \notin TERMINAL_STATES
                  /\ HasKey(MONITORED_JOBS, job_id)
                  /\ TickItem(r.kind, r.kind2, r.sacct))
                    => /\ UNCHANGED <<notification, delivered>>
                       /\ tick_pc' # "send"
                       /\ IF current_state = job_info.last_state
                          THEN UNCHANGED <<MONITORED_JOBS, jobs_file>>
                          ELSE /\ MONITORED_JOBS' = DictSet(MONITORED_JOBS, job_id,
                                    [Get(MONITORED_JOBS, job_id)
                                        EXCEPT !.last_state = current_state])
                               /\ Get(MONITORED_JOBS', job_id).last_state
                                     = current_state
                               /\ JsonLoad(jobs_file'.text) = MONITORED_JOBS'
      ]_vars

\* A tick has updated an entry from PENDING to RUNNING and gone on.
C6_Witness ==
    /\ tick_pc = "loop"
    /\ observed = Obs("RUNNING", TRUE)
    /\ \E k \in JobIds :
          /\ HasKey(MONITORED_JOBS, k)
          /\ Get(MONITORED_JOBS, k).last_state = "RUNNING"
          /\ \A i \in DOMAIN jobs_to_check : jobs_to_check[i].job_id # k

\* The accounting row of a job that ended with exit code 0:0.
SacctZero == [kind |-> "exit0", row |-> <<"id", "st", "0:0">>]

\* C7: for a PENDING job a subscribe creates an entry with last_state
\* PENDING; a tick that observes RUNNING updates the entry and sends nothing;
\* a tick that observes COMPLETED with exit code 0:0 dispatches one
\* notification with the success interpretation, and once it is sent the
\* entry is absent; no second notification follows.
C7_PendingRunningCompletedTrace ==
    /\ [][LoopFree =>
             \A s \in Senders, raw \in RawIds, now \in Times :
                LET k == CleanJobId(raw)
                IN  (/\ k \in JobIds
                     /\ sched[k] = "PENDING"
                     /\ is_authorized(s.user_id)
                     /\ MonitorCommand(s, raw, "exit0", now))
                       => /\ HasKey(MONITORED_JOBS', k)
                          /\ Get(MONITORED_JOBS', k).last_state = "PENDING"
                          /\ Get(MONITORED_JOBS', k).chat_id = s.chat_id
         ]_vars
    /\ [][tick_pc = "loop" =>
             LET job_info == Head(jobs_to_check)
                 k == job_info.job_id
             IN  /\ (/\ job_info.last_state = "PENDING"
                     /\ sched[k] = "RUNNING"
                     /\ HasKey(MONITORED_JOBS, k)
                     /\ TickItem("exit0", "exit0", SacctNotRun))
                       => /\ Get(MONITORED_JOBS', k).last_state = "RUNNING"
                          /\ tick_pc' # "send"
                          /\ UNCHANGED <<notification, delivered>>
                 /\ (/\ sched[k] = "COMPLETED"
                     /\ TickItem("exit0", "exit0", SacctZero))
                       => /\ tick_pc' = "send"
                          /\ notification' =
                                [job_id |-> k, chat_id |-> job_info.chat_id,
                                 final_state |-> "COMPLETED", exit_code |-> "0:0",
                                 verdict |-> "Job completed successfully"]
                          /\ UNCHANGED delivered
         ]_vars
    /\ [][SendReturns =>
             /\ delivered'[notification.job_id] = delivered[notification.job_id] + 1
             /\ \A j \in JobIds \ {notification.job_id} : delivered'[j] = delivered[j]
             /\ ~HasKey(MONITORED_JOBS', notification.job_id)
         ]_vars
    /\ [](\A k \in JobIds : delivered[k] <= 1)

\* The trace has run up to the dispatch: the entry was subscribed, a tick
\* saw RUNNING, and a tick now awaits send_message with the notification of
\* COMPLETED, exit code 0:0, success.
C7_Witness ==
    /\ tick_pc = "send"
    /\ notification.final_state = "COMPLETED"
    /\ notification.exit_code = "0:0"
    /\ notification.verdict = "Job completed successfully"
    /\ HasKey(MONITORED_JOBS, notification.job_id)
    /\ Get(MONITORED_JOBS, notification.job_id).last_state = "RUNNING"
    /\ delivered[notification.job_id] = 0

-----------------------------------------------------------------------------
(* Properties of the single-instance guard                                 *)

\* The processes whose acquire returned True, whose bot is scheduled, and
\* that have neither released nor ended.
Running == {p \in Procs : pc[p] = "running"}

\* C8: at any time at most one process of the operator is in the running
\* phase, for every interleaving of startups that each run
\* kill_running_bot_processes and then check_running_instance.
C8_AtMostOneRunning == Cardinality(Running) <= 1

\* Process q holds the lock on the file at LOCK_FILE_PATH and its port.
HoldsBoth(q) == HoldsFileLock(q) /\ HoldsPort(q)

\* No process other than p holds a file lock or a bound port.
OthersReleased(p) == \A q \in Procs \ {p} : ~HoldsAnyLock(q) /\ ~HoldsPort(q)

\* C9: a check_running_instance that runs while another process of the
\* operator holds both the lock on the lock file and the port returns False;
\* one that runs once the other has released both returns True.
C9_SecondAcquireAfterFirst ==
    [][\A p \in Procs :
          /\ (/\ pc[p] = "lockf"
              /\ lock_file[p] = lock_path
              /\ \E q \in Procs \ {p} : HoldsBoth(q)
              /\ LockFile(p))
                => pc'[p] = "refused" /\ ~HoldsAnyLock(p)' /\ ~HoldsPort(p)'
          /\ (pc[p] = "lockf" /\ OthersReleased(p) /\ LockFile(p))
                => pc'[p] = "bind"
          /\ (pc[p] = "bind" /\ OthersReleased(p) /\ BindSocket(p))
                => /\ pc'[p] = "acquired"
                   /\ inode_lock'[lock_file'[p]] = p
                   /\ HoldsPort(p)'
      ]_vars

\* One process was refused by the file lock, the holder has since released
\* both locks, and a later process has acquired them.
C9_Witness ==
    \E p \in Procs, q \in Procs, r \in Procs :
        /\ pc[q] = "released"
        /\ lock_socket[q] = "closed"
        /\ pc[r] = "refused"
        /\ lock_socket[r] = "none"
        /\ pc[p] = "acquired"
        /\ OthersReleased(p)

\* C10: check_running_instance is all-or-nothing: a process to which it
\* returned True holds the file lock and the port, and a process to which it
\* returned False holds neither (a file lock taken before a failed bind is
\* released).
C10_AcquireAllOrNothing ==
    \A p \in Procs :
        /\ pc[p] = "acquired" =>
              /\ lock_file[p] \in Inodes
              /\ inode_lock[lock_file[p]] = p
              /\ HoldsPort(p)
        /\ pc[p] = "refused" => ~HoldsAnyLock(p) /\ ~HoldsPort(p)

\* A process took the file lock, failed to bind the port, and was refused.
C10_Witness ==
    \E p \in Procs :
        /\ pc[p] = "refused"
        /\ lock_socket[p] = "unbound"
        /\ lock_file[p] = FileClosed

\* The lock state holds no file lock and no bound port for process p.
HoldsNothingIn(st, p) ==
    /\ \A i \in Inodes : st.inode_lock[i] # p
    /\ st.lock_socket[p] # "bound"

\* C11: release_locks is idempotent: called in any state of a process
\* (never acquired, acquire failed, acquired, already released) it raises
\* nothing, after the first call the process holds neither a file lock nor
\* the port, and a further call changes nothing.
C11_ReleaseIdempotent ==
    \A p \in Procs :
        LET once  == release_locks_from(LockState, p)
            twice == release_locks_from(once, p)
        IN  /\ ~once.raised /\ ~twice.raised
            /\ HoldsNothingIn(once, p)
            /\ twice = once
            /\ pc[p] = "released" => once = LockState

\* One process has released, one was refused after it had taken the file
\* lock, and one holds both locks.
C11_Witness ==
    \E p \in Procs, q \in Procs, r \in Procs :
        /\ pc[p] = "released"
        /\ lock_file[p] = FileClosed
        /\ lock_socket[p] = "closed"
        /\ pc[q] = "refused"
        /\ lock_socket[q] = "unbound"
        /\ pc[r] = "running"
        /\ HoldsPort(r)
        /\ HoldsAnyLock(r)

\* What a process does with the registry file, the job queue and the
\* scheduler.
PollingEvents == {"load_monitored_jobs", "run_repeating", "check_monitored_jobs"}

\* C12: the instance lock is acquired before any scheduler polling begins:
\* in every process the loading of the registry, the start of the monitor
\* loop and every monitor tick come after a check_running_instance that
\* returned True, and a process whose check_running_instance returned False
\* ends without loading the registry or starting the monitor loop.
C12_AcquireBeforePolling ==
    \A p \in Procs :
        /\ \A i \in DOMAIN history[p] :
              history[p][i] \in PollingEvents =>
                 \E j \in 1..(i - 1) : history[p][j] = "acquire_true"
        /\ "acquire_false" \in Events(p) =>
              /\ Events(p) \cap PollingEvents = {}
              /\ pc[p] \in {"refused", "exited", "killed"}
        /\ pc[p] = "running" => "acquire_true" \in Events(p)

\* One process has acquired, loaded the registry and run its first tick;
\* another was refused and has ended.
C12_Witness ==
    \E p \in Procs, q \in Procs :
        /\ history[p] = <<"acquire_true", "load_monitored_jobs",
                          "run_repeating", "check_monitored_jobs">>
        /\ history[q] = <<"acquire_false">>
        /\ pc[q] = "exited"

-----------------------------------------------------------------------------
(* Properties of unsubscribing, persistence and the registry               *)

\* The entry of job k is in the registry and user_id is its subscriber.
SubscribedBy(k, user_id) ==
    HasKey(MONITORED_JOBS, k) /\ Get(MONITORED_JOBS, k).user_id = user_id

\* C13: stop_monitoring_job called twice in a row for a monitored job by
\* its subscriber removes the entry the first time (it returns True after
\* "Stopped monitoring") and finds nothing the second time ("is not being
\* monitored"); the second call leaves the registry and its file unchanged.
C13_UnsubscribeTwice ==
    [][LoopFree =>
          \A s \in Senders, raw \in RawIds :
             /\ (SubscribedBy(CleanJobId(raw), s.user_id) /\ UnmonitorCommand(s, raw))
                   => /\ StopMonitoringResult(s.user_id, CleanJobId(raw)) = "stopped"
                      /\ ~HasKey(MONITORED_JOBS', CleanJobId(raw))
                      /\ StopMonitoringResult(s.user_id, CleanJobId(raw))'
                            = "not_monitored"
             /\ \/ UNCHANGED <<MONITORED_JOBS, jobs_file>>
                \/ ~(/\ StopMonitoringResult(s.user_id, CleanJobId(raw))
                          = "not_monitored"
                     /\ UnmonitorCommand(s, raw))
      ]_vars

\* A subscriber has unsubscribed from the only monitored job: the registry
\* file was written, the registry is empty again, and no tick has removed
\* anything; a second /unmonitor would now find nothing.
C13_Witness ==
    \E s \in Senders, k \in JobIds :
        /\ jobs_file = save_monitored_jobs(<<>>)
        /\ MONITORED_JOBS = <<>>
        /\ \A j \in JobIds : delivered[j] = 0
        /\ LoopFree
        /\ is_authorized(s.user_id)
        /\ StopMonitoringResult(s.user_id, k) = "not_monitored"

\* The user ids of the updates that reach the bot.
UserIds == {s.user_id : s \in Senders}

\* The step deletes exactly the entry of job k, keeps every other entry as
\* it was, and leaves the new registry in the file.
DeletesExactly(k) ==
    /\ Keys(MONITORED_JOBS') = Keys(MONITORED_JOBS) \ {k}
    /\ Len(MONITORED_JOBS') = Len(MONITORED_JOBS) - 1
    /\ \A j \in Keys(MONITORED_JOBS') : Get(MONITORED_JOBS', j) = Get(MONITORED_JOBS, j)
    /\ jobs_file'.exists
    /\ load_monitored_jobs(jobs_file') = MONITORED_JOBS'

\* C14: stop_monitoring_job answers "not being monitored" exactly when the
\* registry has no entry for the normalized job id, and "not authorized"
\* exactly when there is an entry and the requester is neither its
\* subscriber nor authorized; in both cases the registry and its file stay
\* as they are; otherwise it deletes exactly that entry, leaves the others
\* unchanged and saves the registry.
C14_UnsubscribeResults ==
    /\ [](\A u \in UserIds, raw \in RawIds :
            LET k == CleanJobId(raw)
                res == StopMonitoringResult(u, k)
            IN  /\ res = "not_monitored" <=> ~HasKey(MONITORED_JOBS, k)
                /\ res = "not_authorized" <=>
                      /\ HasKey(MONITORED_JOBS, k)
                      /\ Get(MONITORED_JOBS, k).user_id # u
                      /\ ~is_authorized(u))
    /\ [][\/ UNCHANGED <<MONITORED_JOBS, jobs_file>>
          \/ \A u \in UserIds, raw \in RawIds :
                stop_monitoring_job(u, raw) =>
                   /\ StopMonitoringResult(u, CleanJobId(raw)) = "stopped"
                   /\ DeletesExactly(CleanJobId(raw))
         ]_vars

\* With an allowlist configured and the registry saved, one job is
\* monitored and the other is not: a user outside the allowlist who is not
\* the subscriber gets "not authorized" for the first and "not being
\* monitored" for the second, and the subscriber's /unmonitor would delete
\* the one entry.
C14_Witness ==
    \E k \in JobIds, j \in JobIds, u \in UserIds :
        /\ AUTHORIZED_USERS # {}
        /\ j # k
        /\ jobs_file.exists
        /\ Len(jobs_file.text) = 1
        /\ StopMonitoringResult(u, k) = "not_authorized"
        /\ StopMonitoringResult(u, j) = "not_monitored"
        /\ StopMonitoringResult(Get(MONITORED_JOBS, k).user_id, k) = "stopped"
        /\ LoopFree

C16_PersistedEqualsMemory ==
    load_monitored_jobs(jobs_file) = MONITORED_JOBS

\* C16, what the code guarantees: every step that changes the registry in
\* memory calls save_monitored_jobs before it yields, and when the write
\* works the file then holds the registry.
C16_MutationIsSavedWhenWriteWorks ==
    [][(MONITORED_JOBS' # MONITORED_JOBS /\ ~Restart) =>
          /\ jobs_file' = save_monitored_jobs(MONITORED_JOBS')
          /\ jobs_file.disk = "ok" =>
                load_monitored_jobs(jobs_file') = MONITORED_JOBS'
      ]_vars

\* A tick has updated an entry to RUNNING and the file holds that registry.
C16_Witness ==
    /\ jobs_file.disk = "ok"
    /\ Len(MONITORED_JOBS) = 2
    /\ MONITORED_JOBS[1].last_state = "RUNNING"
    /\ load_monitored_jobs(jobs_file) = MONITORED_JOBS

\* No two entries of the registry have the same job id.
OneEntryPerJob(reg) ==
    \A i \in DOMAIN reg, j \in DOMAIN reg : reg[i].job_id = reg[j].job_id => i = j

\* C17: the registry holds at most one entry per job id: a monitor_job that
\* is accepted for a job that already has an entry puts the user_id and
\* chat_id of the caller, the state just queried and the time of the call
\* in that entry, adds no entry, and leaves every other entry as it was.
C17_ResubscribeReplaces ==
    /\ [](OneEntryPerJob(MONITORED_JOBS) /\ OneEntryPerJob(load_monitored_jobs(jobs_file)))
    /\ [][\A s \in Senders, k \in JobIds, now \in TwoTimes :
            (/\ HasKey(MONITORED_JOBS, k)
             /\ MonitorJobResult(get_job_details(k, "exit0")) = "now_monitoring"
             /\ MonitorCommand(s, k, "exit0", now))
               => /\ Len(MONITORED_JOBS') = Len(MONITORED_JOBS)
                  /\ Get(MONITORED_JOBS', k) =
                        [job_id |-> k, user_id |-> s.user_id, chat_id |-> s.chat_id,
                         last_state |-> sched[k], added_time |-> now]
                  /\ \A i \in DOMAIN MONITORED_JOBS :
                        MONITORED_JOBS[i].job_id # k
                           => MONITORED_JOBS'[i] = MONITORED_JOBS[i]
         ]_vars

\* While a tick awaits send_message for one job, the entry of the other
\* job, which the tick's snapshot still shows with its first subscriber,
\* carries the other user, a later time and the state queried then.
C17_Witness ==
    \E k \in JobIds :
        /\ tick_pc = "send"
        /\ Len(MONITORED_JOBS) = 2
        /\ Len(jobs_to_check) = 2
        /\ jobs_to_check[2].job_id = k
        /\ MONITORED_JOBS[2].job_id = k
        /\ jobs_to_check[2].user_id = 1
        /\ jobs_to_check[2].added_time = 1
        /\ jobs_to_check[2].last_state = "PENDING"
        /\ MONITORED_JOBS[2].user_id = 2
        /\ MONITORED_JOBS[2].added_time = 2
        /\ MONITORED_JOBS[2].last_state = "RUNNING"

\* C18: in every state reached from the empty registry by /monitor,
\* /unmonitor and ticks, no entry of the registry has a last_state of
\* COMPLETED, CANCELLED, FAILED or TIMEOUT.
C18_NoTerminalLastState ==
    \A i \in DOMAIN MONITORED_JOBS :
        MONITORED_JOBS[i].last_state \notin TERMINAL_STATES

\* A send_message of a tick has raised and nothing was ever delivered: the
\* tick is over, the one monitored job is FAILED at the scheduler, and its
\* entry still carries the last_state RUNNING.
C18_Witness ==
    \E k \in JobIds :
        /\ sched[k] = "FAILED"
        /\ failed_sends >= 1
        /\ tick_pc = "idle"
        /\ HasKey(MONITORED_JOBS, k)
        /\ Get(MONITORED_JOBS, k).last_state = "RUNNING"
        /\ Len(MONITORED_JOBS) = 1
        /\ \A j \in JobIds : delivered[j] = 0

\* The state query of monitor_job for job k, run with outcome kind, does
\* not tell a state: scontrol exits non-zero (the job is not found), or its
\* output has no JobState (monitor_job reads the state as "UNKNOWN").
QueriedUnknown(k, kind) ==
    LET d == get_job_details(k, kind)
    IN  /\ kind \in ScontrolKinds(k)
        /\ ~IsRaised(d)
        /\ \/ "Error" \in DOMAIN d
           \/ DictGet(d, "JobState", "UNKNOWN") = "UNKNOWN"

\* C19: monitor_job rejects a job that is unknown, and creates no entry for
\* it: when the state query fails, and when the query output carries no
\* state (the state reads "UNKNOWN").
C19_UnknownJobRejected ==
    [][/\ \A k \in JobIds, kind \in ExitKinds :
          QueriedUnknown(k, kind) =>
             /\ MonitorJobResult(get_job_details(k, kind)) = "cannot_monitor"
             /\ \/ UNCHANGED <<MONITORED_JOBS, jobs_file>>
                \/ \A s \in Senders, raw \in RawIds, now \in Times :
                      ~(CleanJobId(raw) = k /\ MonitorCommand(s, raw, kind, now))
       /\ \/ UNCHANGED <<MONITORED_JOBS, jobs_file>>
          \/ \A s \in Senders, raw \in RawIds, now \in Times :
                ~(CleanJobId(raw) \notin JobIds /\ MonitorCommand(s, raw, "nonzero", now))
      ]_vars

\* C19, what monitor_job guarantees: a job whose state query fails is
\* rejected ("Cannot monitor job") and no entry is created or changed.
C19_FailedQueryRejected ==
    [][/\ \A k \in JobIds, kind \in ExitKinds :
          (kind \in ScontrolKinds(k) /\ "Error" \in DOMAIN get_job_details(k, kind)) =>
             /\ MonitorJobResult(get_job_details(k, kind)) = "cannot_monitor"
             /\ \/ UNCHANGED <<MONITORED_JOBS, jobs_file>>
                \/ \A s \in Senders, raw \in RawIds, now \in Times :
                      ~(CleanJobId(raw) = k /\ MonitorCommand(s, raw, kind, now))
       /\ \/ UNCHANGED <<MONITORED_JOBS, jobs_file>>
          \/ \A s \in Senders, raw \in RawIds, now \in Times :
                ~(CleanJobId(raw) \notin JobIds /\ MonitorCommand(s, raw, "nonzero", now))
      ]_vars

\* The registry and the file hold an entry with the last_state "UNKNOWN",
\* for a job whose scontrol record carries no JobState.
C19_Witness ==
    \E k \in JobIds :
        /\ sched[k] = "absent"
        /\ HasKey(MONITORED_JOBS, k)
        /\ Get(MONITORED_JOBS, k).last_state = "UNKNOWN"
        /\ load_monitored_jobs(jobs_file) = MONITORED_JOBS

\* C20: a tick never removes an entry while the last_state stored in that
\* entry is non-terminal.
C20_NoRemovalWhileStoredNonTerminal ==
    [][\A k \in JobIds :
          (TickStep /\ Removes(k)) =>
             Get(MONITORED_JOBS, k).last_state \in TERMINAL_STATES
      ]_vars

\* C20, as the tick works: a tick removes an entry only when the state it
\* has just queried for that job is terminal and the notification for that
\* state was sent; the last_state stored in the entry is non-terminal at
\* that moment, because a terminal state is never stored.
C20_RemovalOnlyOnObservedTerminal ==
    [][\A k \in JobIds :
          (TickStep /\ Removes(k)) =>
             /\ observed.state \in TERMINAL_STATES
             /\ sched[k] = observed.state
             /\ notification.job_id = k
             /\ notification.final_state = observed.state
             /\ Get(MONITORED_JOBS, k).last_state \notin TERMINAL_STATES
      ]_vars

\* A tick has removed the entry of a job that timed out, after notifying;
\* the entry of the other job, which is running, is still monitored.
C20_Witness ==
    \E k \in JobIds, j \in JobIds :
        /\ sched[k] = "TIMEOUT"
        /\ delivered[k] = 1
        /\ ~HasKey(MONITORED_JOBS, k)
        /\ HasKey(MONITORED_JOBS, j)
        /\ Get(MONITORED_JOBS, j).last_state = "RUNNING"
        /\ tick_pc = "idle"

-----------------------------------------------------------------------------
(* Properties of re-adding, the tick's coverage and job id normalization   *)

\* The step puts an entry for job k in a registry that had none.
Adds(k) == ~HasKey(MONITORED_JOBS, k) /\ HasKey(MONITORED_JOBS', k)

\* C21: once a tick has sent the terminal notification of a job and removed
\* its entry, no step ever adds an entry for that job again: no tick and no
\* other automatic step does, and an explicit /monitor is rejected because
\* the job's queried state is terminal.
C21_TerminalIsAbsorbing ==
    [][\A k \in JobIds :
          (delivered[k] >= 1 /\ sched[k] \in TERMINAL_STATES) => ~Adds(k)
      ]_vars

\* C21, what the code guarantees: an entry appears only through a /monitor
\* whose query gave a non-terminal state, or through load_monitored_jobs at
\* the start of a process, which takes what the file holds; a tick adds
\* nothing.
C21_OnlySubscribeOrLoadAdds ==
    [][\A k \in JobIds :
          Adds(k) =>
             \/ /\ Restart
                /\ HasKey(load_monitored_jobs(jobs_file), k)
             \/ /\ LoopFree
                /\ sched[k] \notin TERMINAL_STATES
                /\ \E s \in Senders, now \in Times : MonitorCommand(s, k, "exit0", now)
      ]_vars

\* A tick has notified for a completed job and removed its entry, and the
\* file, written since, holds no entry for it either.
C21_Witness ==
    \E k \in JobIds :
        /\ delivered[k] = 1
        /\ sched[k] = "COMPLETED"
        /\ ~HasKey(MONITORED_JOBS, k)
        /\ jobs_file.disk = "ok"
        /\ jobs_file.exists
        /\ ~HasKey(load_monitored_jobs(jobs_file), k)

\* The step ends the running tick.
TickEnds == tick_pc # "idle" /\ tick_pc' = "idle"

\* The running pass of the loop body leaves check_monitored_jobs by an
\* exception: a scheduler command could not be started, or the elif branch
\* indexes an entry that a handler deleted during an earlier await.
PassRaises(r) ==
    LET job_info == Head(jobs_to_check)
        job_details == get_job_details(job_info.job_id, r.kind)
        current_state == DictGet(job_details, "JobState", "UNKNOWN")
    IN  \/ IsRaised(job_details)
        \/ /\ "Error" \notin DOMAIN job_details
           /\ current_state # job_info.last_state
           /\ IF current_state \in TERMINAL_STATES
              THEN IsRaised(get_job_resource_usage(job_info.job_id, r.kind2, r.sacct))
              ELSE ~HasKey(MONITORED_JOBS, job_info.job_id)

\* C22: a tick visits every entry of the registry it found at its start
\* exactly once, whatever the subscribe and unsubscribe handlers do while
\* the tick awaits send_message: the tick ends only with the pass over the
\* last item of its snapshot, and the snapshot of a starting tick is the
\* whole registry (so an entry added and saved before is in it).
C22_TickVisitsWholeSnapshot ==
    [][/\ TickEnds => Len(jobs_to_check) = 1
       /\ (tick_pc = "idle" /\ tick_pc' = "loop") => jobs_to_check' = MONITORED_JOBS
      ]_vars

\* C22, what the code guarantees: a starting tick takes the whole registry
\* as its snapshot; a running tick only ever drops the head of what is left
\* of the snapshot, so no item is visited twice; and a tick that ends before
\* the last item does so by an exception of the running pass.
C22_TickVisitsAtMostOnceAndEndsEarlyOnlyByException ==
    [][/\ (tick_pc = "idle" /\ tick_pc' = "loop") => jobs_to_check' = MONITORED_JOBS
       /\ (tick_pc # "idle" /\ tick_pc' # "idle") =>
             jobs_to_check' \in {jobs_to_check, Tail(jobs_to_check)}
       /\ (TickEnds /\ Len(jobs_to_check) > 1) =>
             \E r \in TickRuns :
                /\ TickItem(r.kind, r.kind2, r.sacct)
                /\ PassRaises(r)
      ]_vars

\* The tick awaits send_message for the first of two snapshot items while a
\* handler has deleted the entry of the second one.
C22_Witness ==
    /\ tick_pc = "send"
    /\ Len(jobs_to_check) = 2
    /\ HasKey(MONITORED_JOBS, jobs_to_check[1].job_id)
    /\ ~HasKey(MONITORED_JOBS, jobs_to_check[2].job_id)
    /\ sched[jobs_to_check[2].job_id] # jobs_to_check[2].last_state

\* The monitoring row of the keyboard that jobinfo_command and the jobinfo_
\* button build: the handler looks the registry up with the id as it holds
\* it (context.args[0], or data.split("_")[1]).
MonitoringButton(user_id, jobid, job_state) ==
    IF job_state \in TERMINAL_STATES THEN "none"
    ELSE IF HasKey(MONITORED_JOBS, jobid)
            /\ Get(MONITORED_JOBS, jobid).user_id = user_id
    THEN "unmonitor"
    ELSE "monitor"

\* The ids a user may type for a job the scheduler knows (scontrol resolves
\* an array element such as 2_0 to its job).
KnownRawIds == {raw \in RawIds : CleanJobId(raw) \in JobIds}

\* C23: every handler reaches the registry with the job id normalized to its
\* leading digit run: the keys the subscribe and unsubscribe handlers leave
\* in the registry are normalized ids, and the lookup of the job information
\* handlers gives for an id as typed what it gives for the normalized id.
C23_EveryRegistryAccessIsNormalized ==
    /\ \A k \in Keys(MONITORED_JOBS) : k = CleanJobId(k)
    /\ \A s \in Senders, raw \in KnownRawIds :
          MonitoringButton(s.user_id, raw, sched[CleanJobId(raw)])
             = MonitoringButton(s.user_id, CleanJobId(raw), sched[CleanJobId(raw)])

\* C23, what the code guarantees: monitor_job and stop_monitoring_job
\* normalize, so every key of the registry and of the saved file is the
\* digit string of a job.
C23_RegistryKeysAreNormalized ==
    /\ \A k \in Keys(MONITORED_JOBS) : k = CleanJobId(k) /\ k \in JobIds
    /\ \A k \in Keys(load_monitored_jobs(jobs_file)) : k = CleanJobId(k) /\ k \in JobIds

\* User 1 subscribed to job 2 by typing 2_0, and the job runs.
C23_Witness ==
    /\ HasKey(MONITORED_JOBS, <<"2">>)
    /\ Get(MONITORED_JOBS, <<"2">>).user_id = 1
    /\ sched[<<"2">>] = "RUNNING"
    /\ MonitoringButton(1, <<"2", "_", "0">>, "RUNNING") = "monitor"

\* Digit runs and array / step suffixes as the scheduler prints them.
DigitRuns == {<<"1">>, <<"2">>, <<"1", "2">>, <<"6", "0", "4">>}
Suffixes == {<<"_", "0">>, <<"_", "1", "2">>, <<".", "b", "a", "t", "c", "h">>,
             <<".", "0">>}

\* C24: normalizing a non-empty digit run followed by an array or step
\* suffix gives exactly the digit run, and normalizing a normalized id
\* (a bare digit run, a key the handlers stored, or the result of any
\* normalization) gives it back unchanged.
C24_NormalizationStripsSuffixAndIsIdempotent ==
    /\ \A run \in DigitRuns, suffix \in Suffixes : CleanJobId(run \o suffix) = run
    /\ \A run \in DigitRuns : CleanJobId(run) = run
    /\ \A raw \in RawIds : CleanJobId(CleanJobId(raw)) = CleanJobId(raw)
    /\ \A k \in Keys(MONITORED_JOBS) : CleanJobId(k) = k

\* Both users subscribed: user 2 typed 2_0 and the entry is under the key 2,
\* in memory and in the saved file.
C24_Witness ==
    /\ Keys(MONITORED_JOBS) = JobIds
    /\ Get(MONITORED_JOBS, <<"2">>).user_id = 2
    /\ Keys(load_monitored_jobs(jobs_file)) = JobIds
    /\ CleanJobId(<<"2", "_", "0">>) = <<"2">>

-----------------------------------------------------------------------------
(* Properties of the command executor, the startup and the lock artefacts  *)

\* C25: run_slurm_command never raises past its boundary: however the tool
\* ends (exit 0, non-zero exit, not startable) it returns (success, text),
\* with success true exactly for exit 0.
C25_RunSlurmCommandNeverRaises ==
    \A j \in JobIds : \A kind \in ScontrolKinds(j) :
        LET run == run_slurm_command(kind, ScontrolStdout(j))
        IN  /\ ~run.raised
            /\ run.success <=> kind = "exit0"

\* C25, what the code guarantees: a tool that was started and exited gives
\* (success, text) with success true exactly for exit 0 and then the text
\* the tool printed; and success is true for no other outcome.
C25_ExitedToolGivesPair ==
    \A j \in JobIds : \A kind \in ScontrolKinds(j) :
        LET run == run_slurm_command(kind, ScontrolStdout(j))
        IN  /\ kind # "oserror" => ~run.raised
            /\ run.success <=> kind = "exit0"
            /\ kind = "exit0" => run.output = ScontrolStdout(j)
            /\ kind = "nonzero" => run.output = "Error"

\* A tick got the Error record of a non-zero exit for the first item of its
\* snapshot and goes on with the second.
C25_Witness ==
    /\ tick_pc = "loop"
    /\ observed = Obs("Error", FALSE)
    /\ Len(jobs_to_check) = 1
    /\ Len(MONITORED_JOBS) = 2

\* C26: every scheduler command and every send_message a tick makes returns
\* within a bounded wait, so a started tick always ends, also when a tool
\* never exits.
C26_TickAlwaysTerminates == (tick_pc # "idle") ~> (tick_pc = "idle")

\* C26, what the code guarantees: the await of send_message always returns
\* (the application is built with connect and read timeouts), and a tick
\* that no tool blocks ends.
C26_SendAlwaysReturns ==
    /\ (tick_pc = "send") ~> (tick_pc # "send")
    /\ (tick_pc # "idle") ~> (tick_pc \in {"idle", "blocked"})

\* The tick waits for a tool that never exits, with an item of its snapshot
\* still to visit.
C26_Witness ==
    /\ tick_pc = "blocked"
    /\ Len(jobs_to_check) = 2
    /\ Len(MONITORED_JOBS) = 2

\* The last thing process p logged.
LastEvent(p) == IF history[p] = <<>> THEN "none" ELSE history[p][Len(history[p])]

\* C27: when run_polling raises Conflict during startup, main() runs the
\* forced reclamation (kill_running_bot_processes) and retries after a wait
\* that is strictly longer than the wait of every earlier attempt; there are
\* at most 5 attempts; and the failure of the last attempt makes main()
\* release the lock and return the failure status 1.
C27_ConflictRetriesBackOffAndEnd ==
    /\ [](\A p \in Procs : startup_attempt(p) < max_startup_attempts)
    /\ [][\A p \in Procs :
             /\ (pc[p] = "running" /\ LastEvent(p)' = "Conflict"
                     /\ history'[p] # history[p])
                   => pc'[p] = "enumerate"
             /\ (pc[p] = "kill" /\ pc'[p] = "waiting")
                   => /\ LastEvent(p) = "Conflict"
                      /\ wait_time(p)' >= 120
                      /\ \A earlier \in 0..(startup_attempt(p) - 1) :
                            ConflictWait(earlier) < wait_time(p)'
             /\ (pc[p] = "waiting" /\ pc'[p] # "waiting")
                   => \/ pc'[p] = "killed"
                      \/ /\ pc'[p] = "running"
                         /\ startup_attempt(p)' = startup_attempt(p) + 1
             /\ (pc[p] = "running" /\ history'[p] # history[p]
                     /\ startup_attempt(p) = max_startup_attempts - 1)
                   => /\ pc'[p] = "exited"
                      /\ LastEvent(p)' = "return_1"
                      /\ HoldsNothingIn(LockState', p)
         ]_vars

\* Process 1 met Conflict in each of its five attempts and returned 1.
C27_Witness ==
    /\ pc[1] = "exited"
    /\ LastEvent(1) = "return_1"
    /\ Cardinality({i \in DOMAIN history[1] : history[1][i] = "Conflict"}) = 5
    /\ ~HoldsAnyLock(1)
    /\ lock_socket[1] = "closed"

\* C28: the lock port is a deterministic function of the operator identity:
\* any two processes of the operator compute the same USER_PORT.
C28_SameOperatorSamePort ==
    \A p, q \in Procs : user_port[p] = user_port[q]

\* C28, what the code guarantees: each process computes one port of the
\* range at import and keeps it; processes that computed the same port
\* never have it bound together.
C28_PortFixedPerProcess ==
    /\ [](user_port \in [Procs -> Ports])
    /\ [](\A p, q \in Procs :
             (p # q /\ HoldsPort(p) /\ HoldsPort(q)) => user_port[p] # user_port[q])
    /\ [][user_port' = user_port]_vars

\* Two processes of the operator have their lock sockets bound, each to the
\* port it computed.
C28_Witness ==
    /\ HoldsPort(1)
    /\ HoldsPort(2)
    /\ user_port[1] # user_port[2]
    /\ pc[1] = "acquired"
    /\ pc[2] = "acquired"

\* C29: whenever a process holds the lock on the file at LOCK_FILE_PATH,
\* that file contains exactly the pid of the holder, whatever acquire
\* attempts were made.
C29_LockFileHoldsPidOfHolder ==
    \A p \in Procs : HoldsFileLock(p) => inode_pid[lock_path] = p

\* C29, what the code guarantees: a successful lockf is followed by the
\* write of the own pid, and the file a process holds the lock on is empty
\* or contains the pid of that process, never another pid.
C29_LockFileEmptyOrPidOfHolder ==
    /\ [](\A p \in Procs : HoldsFileLock(p) => inode_pid[lock_path] \in {0, p})
    /\ [][\A p \in Procs :
             (pc[p] = "lockf" /\ pc'[p] = "bind")
                => /\ inode_lock'[lock_file[p]] = p
                   /\ inode_pid'[lock_file[p]] = p
         ]_vars

\* A process holds the lock on the file at LOCK_FILE_PATH, and the acquire
\* attempt of another process, refused by lockf, has left the file empty.
C29_Witness ==
    \E p \in Procs, q \in Procs :
        /\ HoldsFileLock(p)
        /\ inode_pid[lock_path] = 0
        /\ pc[p] \in {"acquired", "running"}
        /\ pc[q] = "refused"
        /\ lock_socket[q] = "none"

\* The step is methods 1 to 3 of kill_running_bot_processes in process p.
Collects(p) == pc[p] = "enumerate" /\ pc'[p] = "kill"

\* C30: kill_running_bot_processes signals only processes that are
\* instances of the bot owned by the operator, and never the caller: every
\* pid it collects, from the process listings or from the lock file, is the
\* pid of a living bot process other than the caller.
C30_SignalsOnlyOtherInstances ==
    [][\A p \in Procs :
          Collects(p) => \A q \in found'[p] : q # p /\ Alive(q)
      ]_vars

\* C30, what the code guarantees: the caller is never among the pids, the
\* kill loop signals collected pids only, and a collected pid is that of a
\* living bot process other than the caller or is the number read from the
\* lock file.
C30_NeverCallerAndOnlyCollected ==
    /\ [](\A p \in Procs : p \notin found[p])
    /\ [][\A p \in Procs :
             /\ Collects(p) =>
                   \A q \in found'[p] :
                       \/ q # p /\ Alive(q)
                       \/ lock_path # 0 /\ q = inode_pid[lock_path]
             /\ (pc[p] = "kill" /\ found'[p] # found[p]) =>
                   \A q \in Procs \ found[p] : pc'[q] = pc[q]
         ]_vars

\* A starting process has collected the pid of a running bot process and
\* the pid in a lock file whose writer has exited.
C30_Witness ==
    \E p \in Procs, q \in Procs, r \in Procs :
        /\ pc[p] = "kill"
        /\ found[p] = {q, r}
        /\ pc[q] = "running"
        /\ pc[r] = "exited"

-----------------------------------------------------------------------------
(* Properties of the resource usage query and the output parser            *)

\* The section jobinfo_command writes under the job details: the usage
\* fields when `if resource_usage:` holds, else the "not available" notes
\* for a running and for a pending job.
JobinfoUsageSection(job_state, resource_usage) ==
    IF DOMAIN resource_usage # {} THEN "usage_fields"
    ELSE IF job_state = "RUNNING" THEN "not_available_just_started"
    ELSE IF job_state = "PENDING" THEN "not_available_pending"
    ELSE "nothing"

\* The jobs whose state is PENDING or not known.
PendingOrUnknown == {j \in JobIds : sched[j] \in {"PENDING", "absent"}}

\* C31: for a job whose state is PENDING or unknown get_job_resource_usage
\* gives no map (an empty result), so that its caller tells "not yet
\* available" from a populated result.
C31_PendingYieldsNoUsage ==
    \A j \in PendingOrUnknown : \A sacct \in SacctRuns :
        LET resource_usage == get_job_resource_usage(j, "exit0", sacct)
        IN  /\ DOMAIN resource_usage = {}
            /\ sched[j] = "PENDING" =>
                  JobinfoUsageSection("PENDING", resource_usage) = "not_available_pending"

\* C31, what the code guarantees: for such a job no accounting tool is run
\* and the result holds the five fields taken from the job record only (the
\* allocation, the id and the state the query gave, UNKNOWN when there is
\* none), no usage field.
C31_PendingYieldsIdentificationOnly ==
    \A j \in PendingOrUnknown : \A sacct \in SacctRuns :
        LET resource_usage == get_job_resource_usage(j, "exit0", sacct)
        IN  /\ DOMAIN resource_usage =
                  {"AllocatedCPUs", "AllocatedNodes", "NodeList", "JobState", "JobId"}
            /\ resource_usage["JobId"] = j
            /\ resource_usage["JobState"] =
                  (IF sched[j] = "PENDING" THEN "PENDING" ELSE "UNKNOWN")

\* One job is pending while the other has finished and its accounting
\* record gives a populated result.
C31_Witness ==
    /\ sched[<<"1">>] = "PENDING"
    /\ sched[<<"2">>] = "COMPLETED"
    /\ "ExitCode" \in DOMAIN get_job_resource_usage(<<"2">>, "exit0",
                          [kind |-> "exit0", row |-> <<"id", "st", "0:0">>])
    /\ "ExitCode" \notin DOMAIN get_job_resource_usage(<<"1">>, "exit0",
                          [kind |-> "exit0", row |-> <<"id", "st", "0:0">>])

\* Header rows and data rows of a `-P` output, as token sequences: with and
\* without an empty field, shorter and longer than each other.
HeaderLines ==
    {<<"JobID", "|", "AveCPU", "|", "MaxRSS">>, <<"JobID", "|", "AveCPU">>,
     <<"JobID">>, <<"JobID", "|", "|", "MaxRSS">>}
ValueLines ==
    {<<"123", "|", "00:01:02", "|", "4096K">>, <<"123", "|", "00:01:02">>,
     <<"123">>, <<"123", "|", "|", "4096K">>, <<"|">>, <<>>,
     <<"123", "|", "00:01:02", "|", "4096K", "|", "9">>}

\* C32: the parse of a header row and one data row maps the i-th header
\* field to the i-th value field for every i below the shorter of the two
\* lengths and for no other i (extra header or value fields are dropped);
\* the header JobID|AveCPU|MaxRSS with the row 123|00:01:02|4096K gives
\* JobID=123, AveCPU=00:01:02, MaxRSS=4096K; and the exit code of a
\* notification in flight is the third field of the accounting row, if any.
C32_ParseZipsUpToShorterLength ==
    /\ \A header_line \in HeaderLines, value_line \in ValueLines :
          LET headers == SplitOn(header_line, "|")
              values == SplitOn(value_line, "|")
              n == Min(Len(headers), Len(values))
              parsed == ParsePipeOutput(header_line, value_line)
          IN  /\ DOMAIN parsed = {headers[i] : i \in 1..n}
              /\ \A i \in 1..n : parsed[headers[i]] = values[i]
              /\ \A i \in (n + 1)..Len(headers) : headers[i] \notin DOMAIN parsed
    /\ ParsePipeOutput(<<"JobID", "|", "AveCPU", "|", "MaxRSS">>,
                       <<"123", "|", "00:01:02", "|", "4096K">>)
          = [h \in {<<"JobID">>, <<"AveCPU">>, <<"MaxRSS">>} |->
                CASE h = <<"JobID">> -> <<"123">>
                  [] h = <<"AveCPU">> -> <<"00:01:02">>
                  [] OTHER -> <<"4096K">>]
    /\ \A row \in SacctRows :
          LET parsed == ZipHeaderValues(SacctHeader, row)
          IN  /\ DOMAIN parsed = {SacctHeader[i] : i \in 1..Len(row)}
              /\ \A i \in 1..Len(row) : parsed[SacctHeader[i]] = row[i]
    /\ tick_pc = "send" => notification.exit_code \in {"none", "0:0", "1:0"}

\* A tick composed a notification from an accounting row whose third field,
\* under the header ExitCode, is 1:0.
C32_Witness ==
    /\ tick_pc = "send"
    /\ notification.exit_code = "1:0"
    /\ notification.verdict = "Job failed or had errors"

-----------------------------------------------------------------------------
(* Properties of the custom command handler                                *)

\* str.lower() on the letters the command names are written with; a word is
\* the sequence of its characters.
LowerChar(c) ==
    CASE c = "A" -> "a" [] c = "C" -> "c" [] c = "E" -> "e" [] c = "I" -> "i"
      [] c = "L" -> "l" [] c = "N" -> "n" [] c = "O" -> "o" [] c = "P" -> "p"
      [] c = "Q" -> "q" [] c = "R" -> "r" [] c = "S" -> "s" [] c = "T" -> "t"
      [] c = "U" -> "u" [] OTHER -> c
Lower(word) == [i \in DOMAIN word |-> LowerChar(word[i])]

\* ALLOWED_COMMANDS of custom_command
ALLOWED_COMMANDS ==
    {<<"s", "a", "c", "c", "t">>, <<"s", "i", "n", "f", "o">>,
     <<"s", "q", "u", "e", "u", "e">>, <<"s", "s", "t", "a", "t">>,
     <<"s", "p", "r", "i", "o">>}

\* The argument a user may give after the command name.
CustomOption == <<"-", "P">>

\* What a user may send after /custom: nothing, an allowed command in any
\* case, commands that are not allowed, each with and without an argument.
CustomArgs ==
    {<<>>}
    \cup {<<w>> : w \in ALLOWED_COMMANDS}
    \cup {<<w, CustomOption>> : w \in ALLOWED_COMMANDS}
    \cup {<<w, CustomOption>> :
             w \in {<<"S", "A", "C", "C", "T">>, <<"S", "q", "u", "e", "u", "e">>,
                    <<"s", "c", "a", "n", "c", "e", "l">>, <<"S", "R", "U", "N">>,
                    <<"s", "a", "c", "c", "t", ";">>, <<"s", "b", "a", "t", "c", "h">>,
                    <<"/", "b", "i", "n", "/", "s", "h">>, <<>>}}

\* A custom_command that runs whatever command it is given.
custom_command_RunsAnything(args) ==
    IF args = <<>> THEN <<>> ELSE <<Lower(args[1])>> \o Tail(args)

\* custom_command: the argument list it passes to run_slurm_command, or the
\* empty list when it runs no command (usage help, command not allowed)
custom_command(args) ==
    IF args = <<>> THEN <<>>
    ELSE LET cmd == Lower(args[1])
         IN  IF cmd \notin ALLOWED_COMMANDS THEN <<>>
             ELSE <<cmd>> \o Tail(args)

\* custom_command_wrapper: auth_wrapper, then custom_command
custom_command_wrapper(user_id, args) ==
    IF ~is_authorized(user_id) THEN <<>> ELSE custom_command(args)

\* C33: the custom command handler never runs an external command outside
\* the allowlist sacct, sinfo, squeue, sstat, sprio: for every argument list
\* either no command is run, or the lower-cased first argument is in the
\* allowlist and exactly that command is run with the remaining arguments.
C33_CustomRunsOnlyAllowedCommands ==
    \A s \in Senders, args \in CustomArgs :
        LET slurm_cmd == custom_command_wrapper(s.user_id, args)
        IN  \/ slurm_cmd = <<>>
            \/ /\ args # <<>>
               /\ is_authorized(s.user_id)
               /\ Lower(args[1]) \in ALLOWED_COMMANDS
               /\ slurm_cmd = <<Lower(args[1])>> \o Tail(args)

\* With an authorization list, the listed user's /custom SACCT -P runs
\* sacct -P, /custom scancel -P runs nothing, and the other user's
\* /custom sacct -P runs nothing.
C33_Witness ==
    /\ AUTHORIZED_USERS = {1}
    /\ MONITORED_JOBS # <<>>
    /\ custom_command_wrapper(1, <<<<"S", "A", "C", "C", "T">>, CustomOption>>)
          = <<<<"s", "a", "c", "c", "t">>, CustomOption>>
    /\ custom_command_wrapper(1, <<<<"s", "c", "a", "n", "c", "e", "l">>, CustomOption>>)
          = <<>>
    /\ custom_command_wrapper(2, <<<<"s", "a", "c", "c", "t">>, CustomOption>>) = <<>>

-----------------------------------------------------------------------------
(* Properties of the tick against the handlers that run during its awaits  *)

\* The step is the tick reaching its await of send_message.
Dispatches == tick_pc = "loop" /\ tick_pc' = "send"

\* C34: after an unsubscribe for a job has succeeded no notification for
\* that job is dispatched unless it is subscribed again, also when the
\* unsubscribe runs while a tick awaits: a tick dispatches a notification
\* only for a job that has an entry in the registry at that moment.
C34_NoDispatchAfterUnsubscribe ==
    [][Dispatches => HasKey(MONITORED_JOBS, notification'.job_id)]_vars

\* C34, what the code guarantees: a tick dispatches for the items of the
\* snapshot it took at its start, to the target the item had then; an
\* unsubscribe is honoured by every tick that starts after it.
C34_DispatchFollowsSnapshot ==
    [][/\ Dispatches =>
             /\ notification'.job_id = Head(jobs_to_check).job_id
             /\ notification'.chat_id = Head(jobs_to_check).chat_id
       /\ (tick_pc = "idle" /\ tick_pc' = "loop") => jobs_to_check' = MONITORED_JOBS
       /\ (tick_pc # "idle" /\ tick_pc' # "idle") =>
             jobs_to_check' \in {jobs_to_check, Tail(jobs_to_check)}
      ]_vars

\* A tick awaits send_message for the first of two items; the second job has
\* completed, and its entry has been removed by an unsubscribe meanwhile.
C34_Witness ==
    /\ tick_pc = "send"
    /\ Len(jobs_to_check) = 2
    /\ MONITORED_JOBS = <<jobs_to_check[1]>>
    /\ sched[jobs_to_check[2].job_id] = "COMPLETED"

\* C35: a tick removes an entry only if the notification it dispatched went
\* to the delivery target of that entry: when another user subscribes the
\* job again during the await, overwriting the entry, the tick does not
\* delete the new entry after notifying the previous subscriber's target.
C35_RemovesOnlyTheNotifiedEntry ==
    [][\A k \in JobIds :
          (tick_pc = "send" /\ tick_pc' # "send" /\ Removes(k))
             => /\ notification.job_id = k
                /\ Get(MONITORED_JOBS, k).chat_id = notification.chat_id
      ]_vars

\* C35, what the code guarantees: the returning send deletes the entry
\* that is under the job id of the notification at that moment, whoever
\* subscribed it, and no other entry.
C35_RemovesTheEntryUnderTheJobId ==
    [][\A k \in JobIds :
          (tick_pc = "send" /\ tick_pc' # "send" /\ Removes(k))
             => /\ notification.job_id = k
                /\ MONITORED_JOBS' = DictDel(MONITORED_JOBS, k)
      ]_vars

\* While the tick awaits the send to the first subscriber, the other user
\* has subscribed the same job again and owns the entry.
C35_Witness ==
    /\ tick_pc = "send"
    /\ HasKey(MONITORED_JOBS, notification.job_id)
    /\ Get(MONITORED_JOBS, notification.job_id).chat_id # notification.chat_id

\* The step is a send_message of the tick returning without raising.
DispatchReturns == tick_pc = "send" /\ delivered' # delivered

\* C36: while the process lives, at most one notification is successfully
\* dispatched per subscription, whatever ticks and handlers interleave: the
\* step in which a send returns leaves no entry for the job, a tick holds
\* each job at most once in its snapshot, and a job, which is subscribed
\* only before it ends, is notified at most once.
C36_AtMostOneNotificationPerSubscription ==
    /\ [](\A k \in JobIds : delivered[k] <= 1)
    /\ [](OneEntryPerJob(jobs_to_check))
    /\ [][DispatchReturns =>
             /\ ~HasKey(MONITORED_JOBS', notification.job_id)
             /\ \A i \in DOMAIN jobs_to_check' :
                   jobs_to_check'[i].job_id # notification.job_id
         ]_vars

\* A send has returned for the first item of a tick: the job is notified
\* once, has no entry, and the tick goes on with the second item.
C36_Witness ==
    /\ tick_pc = "loop"
    /\ Len(jobs_to_check) = 1
    /\ \E k \in JobIds :
          /\ delivered[k] = 1
          /\ ~HasKey(MONITORED_JOBS, k)
          /\ jobs_to_check[1].job_id # k

-----------------------------------------------------------------------------
(* Properties of the registry file across a crash                           *)

\* C37: when the process dies while the registry is being saved, the
\* registry loaded at the next start is the mapping before the mutation or
\* the mapping after it.
C37_ReloadIsBeforeOrAfter ==
    [][/\ \A s \in Senders, raw \in JobIds, kind \in ExitKinds,
             now \in TwoTimes, point \in CrashPoints :
             MonitorCrashes(s, raw, kind, now, point)
                => MONITORED_JOBS' \in {MONITORED_JOBS,
                                         Subscribed(s, raw, kind, now)}
       /\ \A s \in Senders, raw \in JobIds, point \in CrashPoints :
             UnmonitorCrashes(s, raw, point)
                => MONITORED_JOBS' \in {MONITORED_JOBS,
                                         DictDel(MONITORED_JOBS, CleanJobId(raw))}
      ]_vars

\* What holds instead: the registry loaded after the crash is the mapping
\* before the mutation, the mapping after it, or the empty mapping of a
\* file that open(..., 'w') truncated.
C37_ReloadIsBeforeAfterOrEmpty ==
    [][/\ \A s \in Senders, raw \in JobIds, kind \in ExitKinds,
             now \in TwoTimes, point \in CrashPoints :
             MonitorCrashes(s, raw, kind, now, point)
                => MONITORED_JOBS' \in {MONITORED_JOBS, <<>>,
                                         Subscribed(s, raw, kind, now)}
       /\ \A s \in Senders, raw \in JobIds, point \in CrashPoints :
             UnmonitorCrashes(s, raw, point)
                => MONITORED_JOBS' \in {MONITORED_JOBS, <<>>,
                                         DictDel(MONITORED_JOBS, CleanJobId(raw))}
      ]_vars

\* A process started after a save was cut behind the truncation: the file
\* is there and holds no JSON text, the registry is empty, and a job that
\* was never notified is still running.
C37_Witness ==
    /\ jobs_file.disk = "ok"
    /\ jobs_file.exists
    /\ ~jobs_file.intact
    /\ MONITORED_JOBS = <<>>
    /\ tick_pc = "idle"
    /\ \E k \in JobIds : sched[k] = "RUNNING" /\ delivered[k] = 0

-----------------------------------------------------------------------------
(* Properties of the cleanup between two attempts                           *)

\* The step in which kill_running_bot_processes() returns to the except
\* branch for Conflict of process p, which goes on to its sleep.
ReclaimReturnsInRetry(p) == pc[p] = "kill" /\ pc'[p] = "waiting"

\* C38: kill_running_bot_processes() called between two attempts by the
\* process that holds the instance lock leaves that lock intact: when it
\* returns the lock file is still at LOCK_FILE_PATH, and the process still
\* holds the lockf lock on it and the port.
C38_ReclaimKeepsOwnLock ==
    [][\A p \in Procs :
          ReclaimReturnsInRetry(p) =>
             /\ lock_path' # 0
             /\ HoldsFileLock(p)'
             /\ HoldsPort(p)'
      ]_vars

\* What holds instead: when it returns the process still holds the port and
\* has not been signalled, no file is at LOCK_FILE_PATH and the process
\* holds no lockf lock on a file at that path; and while the process sleeps, the
\* check_running_instance of another process that derived the same port
\* still returns False, at the bind.
C38_ReclaimKeepsOnlyThePort ==
    [][\A p \in Procs :
          /\ ReclaimReturnsInRetry(p) =>
                /\ HoldsPort(p)'
                /\ lock_path' = 0
                /\ ~HoldsFileLock(p)'
          /\ (pc[p] = "waiting" /\ LastEvent(p) = "Conflict") =>
                \A q \in Procs \ {p} :
                    (/\ user_port[q] = user_port[p]
                     /\ pc[q] \in {"lockf", "bind"}
                     /\ pc'[q] \notin {"lockf", "bind"})
                       => pc'[q] \in {"refused", "killed"}
      ]_vars

\* A process sleeps after the cleanup of a Conflict: it holds the port and
\* no lockf lock, and a second process has written a new lock file and was
\* refused at the bind.
C38_Witness ==
    /\ pc[1] = "waiting"
    /\ LastEvent(1) = "Conflict"
    /\ HoldsPort(1)
    /\ ~HoldsAnyLock(1)
    /\ user_port[2] = user_port[1]
    /\ LastEvent(2) = "acquire_false"
    /\ lock_path # 0
    /\ inode_pid[lock_path] = 2

-----------------------------------------------------------------------------
(* Properties of the verdict of a notification                              *)

\* C39: a terminal notification carries "Job completed successfully" only
\* when the final state it reports is COMPLETED: a job that ended CANCELLED,
\* FAILED or TIMEOUT is never reported as successful, whatever its exit code.
C39_SuccessOnlyForCompleted ==
    (notification # NoNote /\ notification.verdict = "Job completed successfully")
       => notification.final_state = "COMPLETED"

\* What holds instead: the verdict follows the exit code of the accounting
\* record alone: success exactly for "0:0", failure for any other exit code,
\* no verdict without one; the final state is a terminal state as scontrol
\* reported it.
C39_VerdictFollowsExitCodeOnly ==
    notification # NoNote =>
       /\ notification.final_state \in TERMINAL_STATES
       /\ notification.verdict = "Job completed successfully"
             <=> notification.exit_code = "0:0"
       /\ notification.verdict = "none" <=> notification.exit_code = "none"

\* A tick awaits send_message with a notification whose final state is
\* CANCELLED and whose verdict is success.
C39_Witness ==
    /\ tick_pc = "send"
    /\ notification.final_state = "CANCELLED"
    /\ notification.exit_code = "0:0"
    /\ notification.verdict = "Job completed successfully"

-----------------------------------------------------------------------------
(* Properties of authorization before the registry is changed               *)

\* GREENBOY_AUTH_USERS is set and does not name the user.
Unauthorized(user_id) == AUTHORIZED_USERS # {} /\ user_id \notin AUTHORIZED_USERS

\* The step changes the registry or its file and is no step of the tick.
HandlerMutates ==
    /\ MONITORED_JOBS' # MONITORED_JOBS \/ jobs_file' # jobs_file
    /\ tick_pc' = tick_pc
    /\ jobs_to_check' = jobs_to_check

\* C40: no registry mutation is performed on behalf of a user for whom
\* is_authorized is false: a /monitor or /unmonitor (command or button) of
\* such a user leaves the registry and its file unchanged, every change of
\* the registry outside the tick is the accepted request of an authorized
\* user, and no entry of the registry or of the file names such a user.
C40_NoMutationForUnauthorized ==
    /\ [](\A i \in DOMAIN MONITORED_JOBS : ~Unauthorized(MONITORED_JOBS[i].user_id))
    /\ [](LET saved == load_monitored_jobs(jobs_file)
          IN  \A i \in DOMAIN saved : ~Unauthorized(saved[i].user_id))
    /\ [][\A s \in Senders :
             Unauthorized(s.user_id) =>
                /\ \A raw \in RawIds, kind \in ExitKinds, now \in Times :
                      MonitorCommand(s, raw, kind, now)
                         => UNCHANGED <<MONITORED_JOBS, jobs_file>>
                /\ \A raw \in RawIds :
                      UnmonitorCommand(s, raw)
                         => UNCHANGED <<MONITORED_JOBS, jobs_file>>
         ]_vars
    /\ [][HandlerMutates =>
             \E s \in Senders :
                /\ ~Unauthorized(s.user_id)
                /\ \/ \E raw \in RawIds, kind \in ExitKinds, now \in Times :
                         MonitorCommand(s, raw, kind, now)
                   \/ \E raw \in RawIds : UnmonitorCommand(s, raw)
         ]_vars

\* The bot of an operator who named user 1 only: user 1 monitors a job, and
\* another job runs that nobody monitors, which a /monitor of user 2 would
\* add if it were let through.
C40_Witness ==
    /\ AUTHORIZED_USERS = {1}
    /\ Len(MONITORED_JOBS) = 1
    /\ MONITORED_JOBS[1].user_id = 1
    /\ load_monitored_jobs(jobs_file) = MONITORED_JOBS
    /\ \E k \in JobIds : sched[k] = "RUNNING" /\ ~HasKey(MONITORED_JOBS, k)
    /\ tick_pc = "idle"

====
